---- MODULE Spec2Model ----
(***************************************************************************)
(* Verification model of the agent orchestration core of Astromech_Agent:  *)
(* the run lane queue, the run registry, the context manager's message     *)
(* sanitisation and dead-response filter, the tool batch runner, the       *)
(* execution turn loop with its finalisation, retries, failover, planning  *)
(* and plan approval, the session over a run with its summarization, the   *)
(* relationship memory store and the chat requests behind the lane queue.  *)
(*                                                                         *)
(* Each component has its own specification (SpecQueue, SpecRegistry, ...) *)
(* over the shared variables; a component's actions leave the other        *)
(* components' variables unchanged.                                        *)
(***************************************************************************)
EXTENDS Integers, Sequences, FiniteSets, TLC

VARIABLES
    \* ---- RunLaneQueue (src/app/agents/run_lane_queue.py) ----
    max_global_concurrency, \* RunLaneQueue.max_global_concurrency
    sem_value,              \* free slots of _global_semaphore
    session_locks,          \* _session_locks: session -> run holding it, 0 = free
    pending,                \* _pending: run ids in enqueue order
    entries,                \* keys of _entries
    active_by_session,      \* _active_by_session: session -> run id, 0 = absent
    entry_session,          \* QueueEntry.session_id per run id, 0 = not created
    entry_cancelled,        \* QueueEntry.cancelled per run id
    qpc,                    \* where the task that owns the entry stands
    sem_holders,            \* runs whose task took a slot and has not given it back
    grant_log,              \* run ids in the order acquire returned a lease
    next_run_id,            \* next fresh run id (stands for uuid4)
    \* ---- RunRegistry (src/app/agents/run_registry.py) ----
    ACTIVE_RUNS,            \* session -> id of the registered RunHandle, 0 = absent
    handles,                \* the RunHandle objects created so far, by id
    live_handles,           \* handles returned by register_run and not yet popped
    next_handle,            \* next fresh handle id
    reg_last,               \* the last registry call and what it returned
    \* ---- ContextManager.sanitize_messages (src/app/agents/context_manager.py) ----
    san_in,                 \* the message list given to sanitize_messages
    san_out,                \* what sanitize_messages returned for san_in
    san_out2,               \* what it returned when applied to san_out
    san_pc,                 \* "input", "once" (applied), "twice" (applied to its output)
    \* ---- run_turn_loop (src/app/agents/orchestrator_execution_loop.py) ----
    lp_pc,                  \* where run_turn_loop stands: "top", "invoke", "reduced",
                            \* "tools", "loop_forced", "summary", "done"
    run_handle,             \* the RunHandle of the run: abort_event, cancel_reason, ...
    turn_num,               \* turn_num
    messages,               \* messages: the context sent to the model
    turn_history,           \* turn_history: the messages this run will persist
    final_answer,           \* final_answer, None until set
    nudge_count,            \* nudge_count
    recent_call_signatures, \* recent_call_signatures
    current_llm,            \* "llm_with_tools" or "executor_llm" (no tools bound)
    failover,               \* the run's FailoverChain: chain, index, failed_indices,
                            \* attempts
    session,                \* AgentSession: messages, last_summary_index
    hit_turn_limit,         \* second component of the loop's return value
    dispatch_log,           \* one entry per execute_tool_batch call: its tool_calls
                            \* and whether abort_event was set when it was called
    steers_sent,            \* steer messages put on steer_queue so far
    \* ---- ContextManager.optimize_context (src/app/agents/context_manager.py) ----
    dr_session,             \* session.messages when the next request arrives
    dr_cleaned,             \* cleaned_history: the history after the dead-response filter
    dr_context,             \* the message list optimize_context returned
    dr_cleaned2,            \* what the filter gives when it is applied to dr_cleaned
    dr_pc,                  \* "stored", "built", "refiltered"
    \* ---- execute_with_retries (src/app/agents/orchestrator_run_execution.py) ----
    ex_pc,                  \* "executing" (inside orchestrator._execute), "returned", "raised"
    ex_setting,             \* settings.AGENT_EXECUTION_MAX_ATTEMPTS
    ex_attempt,             \* attempt, the index of the for loop
    ex_failover,            \* failover, the run's FailoverChain
    ex_route,               \* route_result.provider and route_result.model_name
    ex_response,            \* response
    ex_hit_limit,           \* hit_limit
    ex_outcomes,            \* how each finished call of _execute ended, in order
    \* ---- build_execution_plan (src/app/agents/orchestrator_planning.py) ----
    bp_result,              \* what the planner chain gave: raised, or a plan's steps
    bp_plan,                \* the steps of the plan build_execution_plan returned
    bp_pc,                  \* "planning", "built"
    \* ---- plan approval (orchestrator_run.py, core/guardian.py, api/agent_routes.py) ----
    ap_pc,                  \* run_orchestrator: "deciding", "approval_required", "executing"
    ap_request,             \* user_prompt, session_id, selected_tools and the setting
                            \* AGENT_REQUIRE_PLAN_APPROVAL of the request
    ap_planner,             \* what the planner chain gives for the request
    ap_metadata,            \* approval_required and action_id of the response metadata
    pending_actions,        \* Guardian.pending_actions: action_id -> ActionState
    tasks,                  \* the tasks added to the TaskQueue, in order
    ap_calls,               \* calls of the approve and reject endpoints so far
    ap_last,                \* the last endpoint call and the status it answered
    \* ---- FailoverChain (src/app/agents/failover.py) ----
    fo_chain,               \* a FailoverChain: chain, index, failed_indices, attempts
    fo_last,                \* the last call made on it and what it returned or raised
    \* ---- the run handle kept by execute_with_retries (orchestrator_run_execution.py) ----
    rl_pc,                  \* per call of execute_with_retries: "new", "executing", "ended"
    rl_session,             \* session.session_id of the call, 0 before it starts
    rl_handle,              \* run_handle of the call: the id of its RunHandle, 0 = None
    rl_cause,               \* how the execution phase of the call ended
    \* ---- the session over a run (orchestrator_run.py, orchestrator_memory.py, core/models.py) ----
    ss_pc,                  \* "saved", "executing", "executed", "summarizing", "checked"
    ss_session,             \* the AgentSession of the run: messages, last_summary_index
    ss_stored,              \* what save_session wrote last: the session file
    ss_attempt,             \* attempts of the execution phase started in this run
    ss_end_idx,             \* end_idx of summarize_to_short_term
    ss_last,                \* the last step taken on the session
    \* ---- RelationshipMemoryStore (src/app/memory/relationship_memory.py) ----
    rm_facts,               \* store.facts as the storage file holds them
    rm_calls,               \* calls of upsert_facts so far
    rm_last,                \* the facts given to the last call and store.facts before it
    \* ---- chat_endpoint and chat_stream_endpoint.run_agent (src/app/api/agent_routes.py) ----
    ch_pc,                  \* per request: "none", "loaded", "saved", "failed"
    ch_loaded,              \* the messages of the session the request loaded
    ch_store,               \* session -> messages of the stored session file
    ch_saved_log,           \* run ids in the order their sessions were saved
    \* ---- ShortTermMemoryManager (src/app/memory/short_term.py) ----
    st_now,                 \* datetime.utcnow(), in hours
    st_files,               \* session -> (date -> timestamps of the entries of that daily file)
    st_last,                \* the last call: [call, session, raised]
    \* ---- TaskQueue and AgentHeartbeat (src/app/core/scheduler.py, heartbeat.py) ----
    tq_tasks,               \* the rows of the tasks table, in the order they were created
    tq_in_progress,         \* ids of the in-progress rows in the order of their updated_at
    tq_stale,               \* ids of the rows whose updated_at is older than their cutoff
    tq_approved,            \* action ids of the plans that were approved and enqueued
    hb_pc,                  \* the heartbeat: "sleeping" or "processing"
    hb_running              \* ids of the tasks whose process_task is awaiting its run

qvars == <<max_global_concurrency, sem_value, session_locks, pending, entries,
           active_by_session, entry_session, entry_cancelled, qpc, sem_holders,
           grant_log, next_run_id>>

rvars == <<ACTIVE_RUNS, handles, live_handles, next_handle, reg_last>>

svars == <<san_in, san_out, san_out2, san_pc>>

lvars == <<lp_pc, run_handle, turn_num, messages, turn_history, final_answer,
           nudge_count, recent_call_signatures, current_llm, failover,
           session, hit_turn_limit, dispatch_log, steers_sent>>

dvars == <<dr_session, dr_cleaned, dr_cleaned2, dr_context, dr_pc>>

evars == <<ex_pc, ex_setting, ex_attempt, ex_failover, ex_route, ex_response, ex_hit_limit, ex_outcomes>>

pvars == <<bp_result, bp_plan, bp_pc>>

avars == <<ap_pc, ap_request, ap_planner, ap_metadata, pending_actions, tasks, ap_calls, ap_last>>

fvars == <<fo_chain, fo_last>>

uvars == <<rl_pc, rl_session, rl_handle, rl_cause>>

mvars == <<ss_pc, ss_session, ss_stored, ss_attempt, ss_end_idx, ss_last>>

kvars == <<rm_facts, rm_calls, rm_last>>

hvars == <<ch_pc, ch_loaded, ch_store, ch_saved_log>>

tvars == <<st_now, st_files, st_last>>

gvars == <<tq_tasks, tq_in_progress, tq_stale, tq_approved, hb_pc, hb_running>>

vars == <<qvars, rvars, svars, lvars, dvars, evars, pvars, avars, fvars, uvars, mvars, kvars, hvars, tvars, gvars>>

-----------------------------------------------------------------------------
(* Bounds of the model *)

MaxRuns == 3
MaxSessions == 2
MaxConcurrency == 2

MaxHandles == 2
MaxMsgs == 4

MAX_TURNS == 5              \* stands for MAX_TURNS = 30 of run_turn_loop
MAX_SESSION_MESSAGES == 6   \* stands for MAX_SESSION_MESSAGES = 200
MaxBatchCalls == 2          \* tool calls in one model response
MaxSteers == 1              \* steer messages sent to one run
MaxFailover == 1            \* candidates of the chain after the routed model and the
                            \* tool-unfriendly one
MaxStored == 3              \* stored messages of a session whose context is built
MaxQueuedSteps == 2         \* steps of an approved plan
MaxTasks == 4               \* rows of the tasks table
MaxClockPastMidnight == 2   \* hours the clock runs past the first midnight
MaxStEntries == 2           \* short-term memory entries stored
MaxUpsertItems == 2         \* facts given to one call of upsert_facts
MaxUpserts == 2             \* calls of upsert_facts
SUMMARY_INTERVAL == 3        \* stands for SUMMARY_INTERVAL = 10
MaxAppend == 2              \* messages one attempt appends to the session
MaxChainLen == 4            \* candidates of a failover chain
MaxApprovalSteps == 3       \* steps of the plan whose approval is asked for
MaxApprovalCalls == 3       \* calls of the approve and reject endpoints
MaxPlanSteps == 2           \* steps of a plan the planner model returns
MaxAttemptsSetting == 4     \* largest AGENT_EXECUTION_MAX_ATTEMPTS (its default)

Runs == 1..MaxRuns
HandleIds == 1..MaxHandles
Sessions == 1..MaxSessions

Range(s) == {s[i] : i \in 1..Len(s)}

-----------------------------------------------------------------------------
(* Python string operations used by the code, on TLA+ strings *)

Whitespace == {" ", "\n", "\t"}
\* the lower-case letter of every upper-case letter
UpperToLower ==
    ("A" :> "a") @@ ("B" :> "b") @@ ("C" :> "c") @@ ("D" :> "d") @@ ("E" :> "e") @@
    ("F" :> "f") @@ ("G" :> "g") @@ ("H" :> "h") @@ ("I" :> "i") @@ ("J" :> "j") @@
    ("K" :> "k") @@ ("L" :> "l") @@ ("M" :> "m") @@ ("N" :> "n") @@ ("O" :> "o") @@
    ("P" :> "p") @@ ("Q" :> "q") @@ ("R" :> "r") @@ ("S" :> "s") @@ ("T" :> "t") @@
    ("U" :> "u") @@ ("V" :> "v") @@ ("W" :> "w") @@ ("X" :> "x") @@ ("Y" :> "y") @@
    ("Z" :> "z")

LowerChar(c) == IF c \in DOMAIN UpperToLower THEN UpperToLower[c] ELSE c

\* str.lower()
RECURSIVE lower(_)
lower(s) ==
    IF Len(s) <= 1 THEN LowerChar(s)
    ELSE LET h == Len(s) \div 2
         IN  lower(SubSeq(s, 1, h)) \o lower(SubSeq(s, h + 1, Len(s)))

\* str.strip(chars)
StripChars(s, chars) ==
    LET kept == {i \in 1..Len(s) : SubSeq(s, i, i) \notin chars}
    IN  IF kept = {} THEN ""
        ELSE SubSeq(s, CHOOSE i \in kept : \A j \in kept : i <= j,
                       CHOOSE i \in kept : \A j \in kept : i >= j)

\* str.strip()
strip(s) == StripChars(s, Whitespace)

\* sub in s
Contains(sub, s) == \E i \in 1..(Len(s) - Len(sub) + 1) : SubSeq(s, i, i + Len(sub) - 1) = sub

\* a string of n copies of s
RECURSIVE Repeat(_, _)
Repeat(s, n) ==
    IF n = 0 THEN "" ELSE IF n = 1 THEN s
    ELSE Repeat(s, n \div 2) \o Repeat(s, n - (n \div 2))

-----------------------------------------------------------------------------
(* RunLaneQueue *)

QOthers == <<rvars, svars, lvars, dvars, evars, pvars, avars, fvars, uvars, mvars, kvars, hvars, tvars, gvars>>
ROthers == <<qvars, svars, lvars, dvars, evars, pvars, avars, fvars, uvars, mvars, kvars, hvars, tvars, gvars>>
SOthers == <<qvars, rvars, lvars, dvars, evars, pvars, avars, fvars, uvars, mvars, kvars, hvars, tvars, gvars>>
LOthers == <<qvars, rvars, svars, dvars, evars, pvars, avars, fvars, uvars, mvars, kvars, hvars, tvars, gvars>>
DOthers == <<qvars, rvars, svars, lvars, evars, pvars, avars, fvars, uvars, mvars, kvars, hvars, tvars, gvars>>
EOthers == <<qvars, rvars, svars, lvars, dvars, pvars, avars, fvars, uvars, mvars, kvars, hvars, tvars, gvars>>
POthers == <<qvars, rvars, svars, lvars, dvars, evars, avars, fvars, uvars, mvars, kvars, hvars, tvars, gvars>>
AOthers == <<qvars, rvars, svars, lvars, dvars, evars, pvars, fvars, uvars, mvars, kvars, hvars, tvars, gvars>>
FOthers == <<qvars, rvars, svars, lvars, dvars, evars, pvars, avars, uvars, mvars, kvars, hvars, tvars, gvars>>

\* _pending.remove(run_id): the first occurrence is removed
RemoveFromSeq(s, x) ==
    IF x \notin Range(s) THEN s
    ELSE LET i == CHOOSE k \in 1..Len(s) : s[k] = x /\ \A j \in 1..(k-1) : s[j] # x
         IN  SubSeq(s, 1, i - 1) \o SubSeq(s, i + 1, Len(s))

\* asyncio.Semaphore: acquire returns at once while the value is positive
SemAvailableNoCheck(sv) == TRUE
SemAvailable(sv) == sv > 0

\* is_head = bool(self._pending) and self._pending[0] == entry.run_id
IsHeadAnyPending(r) == r \in Range(pending)
IsHead(r) == pending # <<>> /\ pending[1] = r

\* The second critical section of _wait_and_acquire, entered holding the slot
\* and the session lock (already taken in sv and locks).
Recheck(r, sv, locks) ==
    LET s == entry_session[r]
        session_busy == active_by_session[s] # 0
        unlocked == [locks EXCEPT ![s] = 0]
    IN  IF entry_cancelled[r]
        THEN [pc |-> "raised", sem |-> sv + 1, locks |-> unlocked, grant |-> FALSE, holds |-> FALSE]
        ELSE IF IsHead(r) /\ ~session_busy
        THEN [pc |-> "leased", sem |-> sv, locks |-> locks, grant |-> TRUE, holds |-> TRUE]
        ELSE [pc |-> "yield", sem |-> sv + 1, locks |-> unlocked, grant |-> FALSE, holds |-> FALSE]

\* await session_lock.acquire(): returns at once when the lock is free
TryLock(r, sv, locks) ==
    LET s == entry_session[r]
    IN  IF locks[s] # 0
        THEN [pc |-> "lock", sem |-> sv, locks |-> locks, grant |-> FALSE, holds |-> TRUE]
        ELSE Recheck(r, sv, [locks EXCEPT ![s] = r])

\* await self._global_semaphore.acquire()
TrySem(r, sv, locks) ==
    IF ~SemAvailable(sv)
    THEN [pc |-> "sem", sem |-> sv, locks |-> locks, grant |-> FALSE, holds |-> FALSE]
    ELSE TryLock(r, sv - 1, locks)

\* The first critical section: the inner while loop around self._cond.wait()
HeadCheck(r) ==
    IF entry_cancelled[r]
    THEN [pc |-> "raised", sem |-> sem_value, locks |-> session_locks, grant |-> FALSE, holds |-> FALSE]
    ELSE IF IsHead(r)
    THEN TrySem(r, sem_value, session_locks)
    ELSE [pc |-> "wait_head", sem |-> sem_value, locks |-> session_locks, grant |-> FALSE, holds |-> FALSE]

\* The effect of one run of the acquire task from a resumption to its next
\* suspension, return or raise.
ApplyAcquire(r, res) ==
    /\ qpc' = [qpc EXCEPT ![r] = res.pc]
    /\ sem_value' = res.sem
    /\ session_locks' = res.locks
    /\ sem_holders' = IF res.holds THEN sem_holders \cup {r} ELSE sem_holders \ {r}
    /\ pending' = IF res.grant THEN Tail(pending) ELSE pending
    /\ active_by_session' = IF res.grant
                            THEN [active_by_session EXCEPT ![entry_session[r]] = r]
                            ELSE active_by_session
    /\ grant_log' = IF res.grant THEN Append(grant_log, r) ELSE grant_log
    /\ UNCHANGED <<max_global_concurrency, entries, entry_session, entry_cancelled, next_run_id>>
    /\ UNCHANGED QOthers

QStart ==
    /\ max_global_concurrency \in 1..MaxConcurrency
    /\ sem_value = max_global_concurrency
    /\ session_locks = [s \in Sessions |-> 0]
    /\ pending = <<>>
    /\ entries = {}
    /\ active_by_session = [s \in Sessions |-> 0]
    /\ entry_session = [r \in Runs |-> 0]
    /\ entry_cancelled = [r \in Runs |-> FALSE]
    /\ qpc = [r \in Runs |-> "none"]
    /\ sem_holders = {}
    /\ grant_log = <<>>
    /\ next_run_id = 1

\* RunLaneQueue.enqueue
Enqueue(s) ==
    /\ next_run_id <= MaxRuns
    /\ LET r == next_run_id
       IN  /\ entries' = entries \cup {r}
           /\ pending' = Append(pending, r)
           /\ entry_session' = [entry_session EXCEPT ![r] = s]
           /\ qpc' = [qpc EXCEPT ![r] = "enqueued"]
           /\ next_run_id' = r + 1
    /\ UNCHANGED <<max_global_concurrency, sem_value, session_locks, active_by_session,
                   entry_cancelled, sem_holders, grant_log>>
    /\ UNCHANGED QOthers

\* RunLaneQueue.cancel
Cancel(r) ==
    /\ r \in entries
    /\ entry_cancelled' = [entry_cancelled EXCEPT ![r] = TRUE]
    /\ IF r \in Range(pending)
       THEN /\ pending' = RemoveFromSeq(pending, r)
            /\ entries' = entries \ {r}
       ELSE UNCHANGED <<pending, entries>>
    /\ UNCHANGED <<max_global_concurrency, sem_value, session_locks, active_by_session,
                   entry_session, qpc, sem_holders, grant_log, next_run_id>>
    /\ UNCHANGED QOthers

\* RunLaneQueue.acquire is called, or its task resumes from self._cond.wait()
\* or from asyncio.sleep(0)
AcquireWaitHead(r) ==
    /\ qpc[r] \in {"enqueued", "wait_head", "yield"}
    /\ HeadCheck(r).pc # qpc[r]
    /\ ApplyAcquire(r, HeadCheck(r))

\* the task resumes from self._global_semaphore.acquire()
AcquireSemWake(r) ==
    /\ qpc[r] = "sem"
    /\ SemAvailable(sem_value)
    /\ ApplyAcquire(r, TrySem(r, sem_value, session_locks))

\* the task resumes from session_lock.acquire()
AcquireLockWake(r) ==
    /\ qpc[r] = "lock"
    /\ session_locks[entry_session[r]] = 0
    /\ ApplyAcquire(r, TryLock(r, sem_value, session_locks))

\* asyncio.wait_for cancels the waiting task at its suspension point
AcquireTimeout(r) ==
    /\ qpc[r] \in {"wait_head", "sem", "lock", "yield"}
    /\ qpc' = [qpc EXCEPT ![r] = "timed_out"]
    /\ UNCHANGED <<max_global_concurrency, sem_value, session_locks, pending, entries,
                   active_by_session, entry_session, entry_cancelled, sem_holders,
                   grant_log, next_run_id>>
    /\ UNCHANGED QOthers

\* self._global_semaphore.release()
ReleaseSlotLeak(sv) == sv
ReleaseSlot(sv) == sv + 1

\* RunLaneQueue.release
Release(r) ==
    /\ qpc[r] = "leased"
    /\ LET s == entry_session[r]
       IN  /\ active_by_session' = IF active_by_session[s] = r
                                   THEN [active_by_session EXCEPT ![s] = 0]
                                   ELSE active_by_session
           /\ entries' = entries \ {r}
           /\ session_locks' = [session_locks EXCEPT ![s] = 0]
           /\ sem_value' = ReleaseSlot(sem_value)
           /\ sem_holders' = sem_holders \ {r}
           /\ qpc' = [qpc EXCEPT ![r] = "released"]
    /\ UNCHANGED <<max_global_concurrency, pending, entry_session, entry_cancelled,
                   grant_log, next_run_id>>
    /\ UNCHANGED QOthers

QNext ==
    \/ \E s \in Sessions : Enqueue(s)
    \/ \E r \in Runs : Cancel(r)
    \/ \E r \in Runs : AcquireWaitHead(r)
    \/ \E r \in Runs : AcquireSemWake(r)
    \/ \E r \in Runs : AcquireLockWake(r)
    \/ \E r \in Runs : AcquireTimeout(r)
    \/ \E r \in Runs : Release(r)

\* the entry was cancelled before its acquire got a lease
CancelledWhilePending(r) ==
    entry_cancelled[r] /\ qpc[r] \notin {"none", "leased", "released"}

\* entry r2, enqueued after r, is at the head with its session free and waits
\* for a global slot while the acquire of r holds one
HoldsSlotBefore(r, r2) ==
    /\ r2 > r
    /\ r \in sem_holders
    /\ IsHead(r2)
    /\ ~entry_cancelled[r2]
    /\ qpc[r2] = "sem"
    /\ ~SemAvailable(sem_value)
    /\ active_by_session[entry_session[r2]] = 0
    /\ session_locks[entry_session[r2]] = 0

\* C20: cancel on a pending entry takes it out of the queue and leaves the
\* order of the others; from then on its acquire gets no lease, and it ends
\* by raising the cancellation (unless its timeout ends it first); and the
\* cancelled entry keeps no entry enqueued after it waiting:
\* it is not in the queue and holds no global slot the head is waiting for.
C20_CancelUnblocks ==
    [][\A r \in Runs :
          /\ (r \in Range(pending) /\ ~entry_cancelled[r] /\ entry_cancelled'[r]) =>
                 pending' = RemoveFromSeq(pending, r)
          /\ CancelledWhilePending(r) =>
                 /\ r \notin Range(pending)
                 /\ qpc'[r] # "leased"
                 /\ (qpc'[r] \notin {"sem", "lock"} /\ qpc'[r] # qpc[r]) =>
                        qpc'[r] \in {"raised", "timed_out"}
                 /\ \A r2 \in Runs : ~HoldsSlotBefore(r, r2)
      ]_vars

\* the acquire calls that ended without returning a lease: by the timeout of
\* wait_for or the cancellation of the caller (both cancel the waiting task
\* at its suspension point) or by the cancellation of the entry
EndedWithoutLease == {r \in Runs : qpc[r] \in {"timed_out", "raised"}}
\* the tasks that hold a global slot while their acquire is still running
SlotHeldInAcquire == {r \in Runs : qpc[r] = "lock"}
Leased == {r \in Runs : qpc[r] = "leased"}

\* C32: an acquire call that ended without returning a lease (timeout,
\* cancelled entry, cancelled caller) holds neither a global slot nor a
\* session lock, so the global slots in use are exactly those of the granted,
\* unreleased leases and of the acquire calls still in progress.
C32_FailedAcquireHoldsNothing ==
    /\ \A r \in EndedWithoutLease :
           /\ r \notin sem_holders
           /\ \A s \in Sessions : session_locks[s] # r
    /\ max_global_concurrency - sem_value =
           Cardinality(Leased) + Cardinality(SlotHeldInAcquire)

\* The queue when no entry is cancelled and no acquire has a timeout
\* (timeout_seconds = 0): enqueue, the steps of acquire, release.
QLiveNext ==
    \/ \E s \in Sessions : Enqueue(s)
    \/ \E r \in Runs : AcquireWaitHead(r)
    \/ \E r \in Runs : AcquireSemWake(r)
    \/ \E r \in Runs : AcquireLockWake(r)
    \/ \E r \in Runs : Release(r)

\* The event loop runs every task that is ready, and every holder of a lease
\* releases it.
QLiveFairness ==
    \A r \in Runs :
        /\ WF_vars(AcquireWaitHead(r))
        /\ WF_vars(AcquireSemWake(r))
        /\ WF_vars(AcquireLockWake(r))
        /\ WF_vars(Release(r))

\* C21: when every lease is released and no entry is cancelled or times out,
\* every enqueued entry is eventually granted a lease, and leases are granted
\* in enqueue order (so two requests on one session both get theirs, the
\* earlier one first).
C21_EveryEntryGranted ==
    /\ \A r \in Runs : (r \in entries) ~> (r \in Range(grant_log))
    /\ [](\A i, j \in 1..Len(grant_log) : i < j => grant_log[i] < grant_log[j])

\* two entries of one session were both granted a lease, and the later one
\* had been enqueued while the earlier one held its lease or waited
C21_Witness ==
    /\ Len(grant_log) >= 2
    /\ entry_session[grant_log[1]] = entry_session[grant_log[2]]
    /\ qpc[grant_log[2]] = "leased"

-----------------------------------------------------------------------------
(* RunRegistry *)

AbortReasons == {"user_cancelled"}
\* max_turns as execute_with_retries passes it
RunMaxTurns == 30
MaxTurnsArgs == {RunMaxTurns}
\* turn numbers given to update_run_turn: one within max_turns, one beyond it
TurnArgs == {1, RunMaxTurns + 1}
TimeoutMsArgs == {0, 5}

\* a RunHandle that was not created yet
NoHandle ==
    [session |-> 0, status |-> "none", cancel_reason |-> "None", abort_event |-> FALSE,
     done_event |-> FALSE, current_turn |-> 0, max_turns |-> 0, timeout_task |-> "none"]

\* RunHandle(session_id=session_id, max_turns=max_turns) and its __post_init__
NewHandle(s, mt, tmo) ==
    [session |-> s, status |-> "running", cancel_reason |-> "None", abort_event |-> FALSE,
     done_event |-> FALSE, current_turn |-> 0, max_turns |-> mt,
     timeout_task |-> IF tmo > 0 THEN "sleeping" ELSE "none"]

\* if run._timeout_task and not run._timeout_task.done(): run._timeout_task.cancel()
CancelWatchdogNot(h) == h.timeout_task
CancelWatchdog(h) == IF h.timeout_task = "sleeping" THEN "cancelled" ELSE h.timeout_task

\* what a call returned; for register_run also the registration it found
RegCall(op, s, raised, ret) ==
    [op |-> op, session |-> IF op = "register_run" THEN s ELSE 0,
     had |-> IF op = "register_run" THEN ACTIVE_RUNS[s] ELSE 0,
     had_state |-> IF op = "register_run" /\ ACTIVE_RUNS[s] # 0
                   THEN handles[ACTIVE_RUNS[s]] ELSE NoHandle,
     raised |-> raised, ret |-> ret]

RStart ==
    /\ ACTIVE_RUNS = [s \in Sessions |-> 0]
    /\ handles = [h \in HandleIds |-> NoHandle]
    /\ live_handles = {}
    /\ next_handle = 1
    /\ reg_last = [op |-> "none", session |-> 0, had |-> 0, had_state |-> NoHandle,
                   raised |-> FALSE, ret |-> 0]

\* if session_id in ACTIVE_RUNS
AlreadyActiveNever(s) == FALSE
AlreadyActive(s) == ACTIVE_RUNS[s] # 0

\* register_run
RegisterRun(s, mt, tmo) ==
    /\ next_handle <= MaxHandles
    /\ IF AlreadyActive(s)
       THEN /\ reg_last' = RegCall("register_run", s, TRUE, 0)
            /\ UNCHANGED <<ACTIVE_RUNS, handles, live_handles, next_handle>>
       ELSE LET h == next_handle
            IN  /\ handles' = [handles EXCEPT ![h] = NewHandle(s, mt, tmo)]
                /\ ACTIVE_RUNS' = [ACTIVE_RUNS EXCEPT ![s] = h]
                /\ live_handles' = live_handles \cup {h}
                /\ next_handle' = h + 1
                /\ reg_last' = RegCall("register_run", s, FALSE, h)
    /\ UNCHANGED ROthers

\* if run is None or run.status != "running"
NotRunningOnlyAbsent(h) == h = 0
NotRunning(h) == h = 0 \/ handles[h].status # "running"

\* abort_run
AbortRun(s, reason) ==
    /\ LET h == ACTIVE_RUNS[s]
       IN  IF NotRunning(h)
           THEN /\ reg_last' = RegCall("abort_run", s, FALSE, 0)
                /\ UNCHANGED handles
           ELSE /\ handles' = [handles EXCEPT ![h] =
                        [@ EXCEPT !.status = "aborted", !.cancel_reason = reason,
                                  !.abort_event = TRUE, !.done_event = TRUE,
                                  !.timeout_task = CancelWatchdog(handles[h])]]
                /\ reg_last' = RegCall("abort_run", s, FALSE, 1)
    /\ UNCHANGED <<ACTIVE_RUNS, live_handles, next_handle>>
    /\ UNCHANGED ROthers

\* complete_run
CompleteRun(s) ==
    /\ LET h == ACTIVE_RUNS[s]
       IN  IF h = 0
           THEN /\ reg_last' = RegCall("complete_run", s, FALSE, 0)
                /\ UNCHANGED <<ACTIVE_RUNS, handles, live_handles>>
           ELSE /\ ACTIVE_RUNS' = [ACTIVE_RUNS EXCEPT ![s] = 0]
                /\ handles' = [handles EXCEPT ![h] =
                        [@ EXCEPT !.status = "completed", !.done_event = TRUE,
                                  !.timeout_task = CancelWatchdog(handles[h])]]
                /\ live_handles' = live_handles \ {h}
                /\ reg_last' = RegCall("complete_run", s, FALSE, 0)
    /\ UNCHANGED next_handle
    /\ UNCHANGED ROthers

\* update_run_turn
UpdateRunTurn(s, n) ==
    /\ ACTIVE_RUNS[s] # 0
    /\ LET h == ACTIVE_RUNS[s]
           mt == handles[h].max_turns
       IN  handles' = [handles EXCEPT ![h] =
                IF mt # 0 /\ n > mt
                THEN [@ EXCEPT !.current_turn = n, !.status = "aborted",
                               !.cancel_reason = "max_turns_reached",
                               !.abort_event = TRUE, !.done_event = TRUE]
                ELSE [@ EXCEPT !.current_turn = n]]
    /\ reg_last' = RegCall("update_run_turn", s, FALSE, 0)
    /\ UNCHANGED <<ACTIVE_RUNS, live_handles, next_handle>>
    /\ UNCHANGED ROthers

\* _auto_abort: the watchdog task of handle w wakes from its sleep
AutoAbort(w) ==
    /\ handles[w].timeout_task = "sleeping"
    /\ LET s == handles[w].session
           h == ACTIVE_RUNS[s]
           woke == [handles EXCEPT ![w].timeout_task = "done"]
       IN  handles' = IF h # 0 /\ handles[h].status = "running"
                      THEN [woke EXCEPT ![h] =
                                [@ EXCEPT !.status = "timed_out", !.cancel_reason = "timeout",
                                          !.abort_event = TRUE, !.done_event = TRUE]]
                      ELSE woke
    /\ reg_last' = RegCall("_auto_abort", handles[w].session, FALSE, 0)
    /\ UNCHANGED <<ACTIVE_RUNS, live_handles, next_handle>>
    /\ UNCHANGED ROthers

RNext ==
    \/ \E s \in Sessions, mt \in MaxTurnsArgs, tmo \in TimeoutMsArgs : RegisterRun(s, mt, tmo)
    \/ \E s \in Sessions, reason \in AbortReasons : AbortRun(s, reason)
    \/ \E s \in Sessions : CompleteRun(s)
    \/ \E s \in Sessions, n \in TurnArgs : UpdateRunTurn(s, n)
    \/ \E w \in HandleIds : AutoAbort(w)

\* C23: abort_run on a session whose handle is running makes the handle
\* aborted with the given reason, sets its abort and done signals, leaves no
\* watchdog pending and returns true; on a session with no handle or with a
\* handle that is not running it changes nothing and returns false.
C23_AbortRunContract ==
    [][\A s \in Sessions, reason \in AbortReasons :
          AbortRun(s, reason) =>
              LET h == ACTIVE_RUNS[s]
              IN  IF h # 0 /\ handles[h].status = "running"
                  THEN /\ handles'[h].status = "aborted"
                       /\ handles'[h].cancel_reason = reason
                       /\ handles'[h].abort_event
                       /\ handles'[h].done_event
                       /\ handles'[h].timeout_task # "sleeping"
                       /\ \A g \in HandleIds \ {h} : handles'[g] = handles[g]
                       /\ ACTIVE_RUNS' = ACTIVE_RUNS
                       /\ reg_last'.ret = 1
                  ELSE /\ handles' = handles
                       /\ ACTIVE_RUNS' = ACTIVE_RUNS
                       /\ reg_last'.ret = 0
      ]_vars

\* abort_run returned true for a handle whose watchdog was pending, and a
\* handle of another session that had timed out stayed as it was
C23_Witness ==
    /\ reg_last.op = "abort_run"
    /\ reg_last.ret = 1
    /\ \E h, g \in HandleIds :
          /\ handles[h].status = "aborted"
          /\ handles[h].timeout_task = "cancelled"
          /\ handles[g].status = "timed_out"

C2_RegisterExclusive ==
    /\ \A a, b \in live_handles : a # b => handles[a].session # handles[b].session
    /\ \A a \in live_handles : ACTIVE_RUNS[handles[a].session] = a
    /\ (reg_last.op = "register_run" /\ reg_last.had # 0) =>
            /\ reg_last.raised
            /\ ACTIVE_RUNS[reg_last.session] = reg_last.had
            /\ handles[reg_last.had] = reg_last.had_state

\* register_run was called for a session whose handle, already aborted, is
\* still registered
C2_Witness ==
    /\ reg_last.op = "register_run"
    /\ reg_last.had # 0
    /\ reg_last.raised
    /\ handles[reg_last.had].status = "aborted"


Leases == {r \in Runs : qpc[r] = "leased"}

\* C1: among the leases granted and not yet released, no two have the same
\* session_id and there are at most max_global_concurrency of them.
C1_LaneExclusion ==
    /\ \A a, b \in Leases : a # b => entry_session[a] # entry_session[b]
    /\ Cardinality(Leases) <= max_global_concurrency

\* every slot is leased while a further entry, at the head, waits for one
C1_Witness ==
    /\ max_global_concurrency = 2
    /\ Cardinality(Leases) = 2
    /\ \E r \in Runs : qpc[r] = "sem"

\* C3: leases are granted in enqueue order (run ids are handed out in enqueue
\* order): when an entry has been granted, every entry enqueued before it was
\* granted earlier or is cancelled.
C3_StrictFifoGrant ==
    \A i \in 1..Len(grant_log) :
        \A e1 \in 1..(grant_log[i] - 1) :
            \/ entry_cancelled[e1]
            \/ \E j \in 1..(i - 1) : grant_log[j] = e1

\* two entries of different sessions were granted in order, and an entry
\* enqueued before the second was cancelled and never granted
C3_Witness ==
    /\ Len(grant_log) >= 2
    /\ entry_session[grant_log[1]] # entry_session[grant_log[2]]
    /\ \E c \in Runs : /\ c < grant_log[2]
                       /\ entry_cancelled[c]
                       /\ c \notin Range(grant_log)

-----------------------------------------------------------------------------
(* Messages and ContextManager.sanitize_messages *)

\* langchain messages: SystemMessage, HumanMessage, AIMessage (tool_calls is the
\* list of its calls, empty when it has none) and ToolMessage
SystemMessage(c) == [role |-> "system", content |-> c, tool_calls |-> <<>>, tool_call_id |-> 0, name |-> ""]
HumanMessage(c) == [role |-> "human", content |-> c, tool_calls |-> <<>>, tool_call_id |-> 0, name |-> ""]
AIMessage(c, tcs) == [role |-> "ai", content |-> c, tool_calls |-> tcs, tool_call_id |-> 0, name |-> ""]
ToolMessage(c, id, n) == [role |-> "tool", content |-> c, tool_calls |-> <<>>, tool_call_id |-> id, name |-> n]

\* a tool call of an AIMessage
ToolCall(id, n) == [id |-> id, name |-> n]

Last(s) == s[Len(s)]

\* not content or not str(content).strip()
IsBlank(c) == \A i \in 1..Len(c) : SubSeq(c, i, i) \in {" ", "\n", "\t"}

\* isinstance(m, AIMessage) and getattr(m, 'tool_calls', None)
HasToolCalls(m) == m.role = "ai" /\ m.tool_calls # <<>>

\* the index after the run of ToolMessages that starts at body[i + 1]
ToolRunEnd(body, i) ==
    IF \E j \in (i + 1)..Len(body) : body[j].role # "tool"
    THEN CHOOSE j \in (i + 1)..Len(body) :
            body[j].role # "tool" /\ \A k \in (i + 1)..(j - 1) : body[k].role = "tool"
    ELSE Len(body) + 1

\* the ToolMessages collected after an AIMessage with tool_calls
PatchTool(tm) ==
    IF IsBlank(tm.content) THEN ToolMessage("(empty result)", tm.tool_call_id, tm.name) ELSE tm

\* an AIMessage whose tool_calls are followed by no ToolMessage: the
\* tool_calls are dropped and the message is appended as it is
StripToolCalls(acc, msg) ==
    Append(acc, AIMessage(IF msg.content # "" THEN msg.content ELSE "(tool call attempted)", <<>>))

\* a plain AIMessage: merged into a plain AIMessage right before it
PlainAI(acc, msg) ==
    LET ai_content == IF ~IsBlank(msg.content) THEN msg.content ELSE "(empty response)"
    IN  IF acc # <<>> /\ Last(acc).role = "ai" /\ ~HasToolCalls(Last(acc))
        THEN [acc EXCEPT ![Len(acc)] = AIMessage(Last(acc).content \o "\n" \o ai_content, <<>>)]
        ELSE Append(acc, AIMessage(ai_content, <<>>))

\* a ToolMessage met by the main loop is kept only after an AIMessage with tool_calls
KeepLooseTool(acc) == acc # <<>> /\ HasToolCalls(Last(acc))

\* the main loop over body, from index i with the list built so far
RECURSIVE SanitizeBody(_, _, _)
SanitizeBody(body, i, acc) ==
    IF i > Len(body) THEN acc
    ELSE LET msg == body[i]
         IN  IF msg.role = "tool"
             THEN SanitizeBody(body, i + 1, IF KeepLooseTool(acc) THEN Append(acc, msg) ELSE acc)
             ELSE IF msg.role = "ai"
             THEN IF msg.tool_calls # <<>>
                  THEN LET j == ToolRunEnd(body, i)
                           tool_msgs == [k \in 1..(j - i - 1) |-> PatchTool(body[i + k])]
                           patched_msg == IF IsBlank(msg.content)
                                          THEN AIMessage("(calling tools)", msg.tool_calls)
                                          ELSE msg
                       IN  IF tool_msgs # <<>>
                           THEN SanitizeBody(body, j, Append(acc, patched_msg) \o tool_msgs)
                           ELSE SanitizeBody(body, i + 1, StripToolCalls(acc, msg))
                  ELSE SanitizeBody(body, i + 1, PlainAI(acc, msg))
             ELSE SanitizeBody(body, i + 1, Append(acc, msg))

\* the number of leading SystemMessages
LeadingSystems(msgs) ==
    IF \E i \in 1..Len(msgs) : msgs[i].role # "system"
    THEN (CHOOSE i \in 1..Len(msgs) :
            msgs[i].role # "system" /\ \A k \in 1..(i - 1) : msgs[k].role = "system") - 1
    ELSE Len(msgs)

\* the final pass: no message keeps an empty content
FinalPass(m) ==
    IF ~IsBlank(m.content) THEN m
    ELSE IF m.role = "human" THEN HumanMessage("(continued)")
    ELSE IF m.role = "ai"
         THEN IF m.tool_calls # <<>> THEN AIMessage("(calling tools)", m.tool_calls)
              ELSE AIMessage("[processing]", <<>>)
    ELSE IF m.role = "system" THEN SystemMessage("(system)")
    ELSE ToolMessage("(empty result)", m.tool_call_id, m.name)

\* if sanitized and not isinstance(sanitized[0], HumanMessage)
NeedsLeadingHumanOnlyAI(sanitized0) == sanitized0 # <<>> /\ sanitized0[1].role = "ai"
NeedsLeadingHuman(sanitized0) == sanitized0 # <<>> /\ sanitized0[1].role # "human"

\* ContextManager.sanitize_messages
sanitize_messages(msgs) ==
    IF msgs = <<>> THEN msgs
    ELSE LET n == LeadingSystems(msgs)
             result == [k \in 1..n |-> IF ~IsBlank(msgs[k].content)
                                       THEN msgs[k] ELSE SystemMessage("(system)")]
             body == SubSeq(msgs, n + 1, Len(msgs))
             sanitized0 == SanitizeBody(body, 1, <<>>)
             sanitized == IF NeedsLeadingHuman(sanitized0)
                          THEN <<HumanMessage("(continued conversation)")>> \o sanitized0
                          ELSE sanitized0
             all == result \o sanitized
         IN  [k \in 1..Len(all) |-> FinalPass(all[k])]

\* the messages the inputs are drawn from
MsgUniverse ==
    {SystemMessage(""), SystemMessage("s"), HumanMessage(""), HumanMessage("h"),
     AIMessage("", <<>>), AIMessage("a", <<>>),
     AIMessage("", <<ToolCall(1, "t")>>), AIMessage("b", <<ToolCall(1, "t")>>),
     ToolMessage("r", 1, "t"), ToolMessage("", 1, "t"), ToolMessage("q", 2, "t")}

MsgLists == UNION {[1..n -> MsgUniverse] : n \in 0..MaxMsgs}

SStart ==
    /\ san_in = <<>>
    /\ san_out = <<>>
    /\ san_out2 = <<>>
    /\ san_pc = "input"

\* sanitize_messages is called on a message list
Sanitize ==
    /\ san_pc = "input"
    /\ san_out' = sanitize_messages(san_in)
    /\ san_pc' = "once"
    /\ UNCHANGED <<san_in, san_out2>>
    /\ UNCHANGED SOthers

\* sanitize_messages is called on the list it returned (the turn loop does so
\* at the start of every turn)
SanitizeAgain ==
    /\ san_pc = "once"
    /\ san_out2' = sanitize_messages(san_out)
    /\ san_pc' = "twice"
    /\ UNCHANGED <<san_in, san_out>>
    /\ UNCHANGED SOthers

SNext == Sanitize \/ SanitizeAgain

\* the ids of an AIMessage's tool_calls
CallIds(m) == {m.tool_calls[k].id : k \in 1..Len(m.tool_calls)}

\* in list xs the ToolMessage at k follows, through ToolMessages only, an
\* AIMessage with tool_calls
FollowsToolCalls(xs, k) ==
    \E a \in 1..(k - 1) :
        /\ HasToolCalls(xs[a])
        /\ \A b \in (a + 1)..(k - 1) : xs[b].role = "tool"

\* ... whose tool_calls contain the ToolMessage's tool_call_id
FollowsMatchingToolCalls(xs, k) ==
    \E a \in 1..(k - 1) :
        /\ HasToolCalls(xs[a])
        /\ \A b \in (a + 1)..(k - 1) : xs[b].role = "tool"
        /\ xs[k].tool_call_id \in CallIds(xs[a])

\* C5: in every list sanitize_messages returns, each Tool message is preceded,
\* through Tool messages only, by an Assistant message whose tool_calls contain
\* the Tool message's tool_call_id.
C5_ToolFollowsMatchingCall ==
    san_pc # "input" =>
        \A k \in 1..Len(san_out) :
            san_out[k].role = "tool" => FollowsMatchingToolCalls(san_out, k)

\* C6: in every list sanitize_messages returns, no two adjacent messages are
\* both Assistant messages without tool_calls.
C6_NoAdjacentPlainAssistants ==
    san_pc # "input" =>
        \A k \in 1..(Len(san_out) - 1) :
            ~(/\ san_out[k].role = "ai" /\ ~HasToolCalls(san_out[k])
              /\ san_out[k + 1].role = "ai" /\ ~HasToolCalls(san_out[k + 1]))

\* C7: sanitize_messages is idempotent: applied to its own output it returns
\* that output.
C7_SanitizeIdempotent ==
    san_pc = "twice" => san_out2 = san_out

\* the first message of the list that is not a System message is a User message
FirstNonSystemIsUser(msgs) ==
    \A i \in 1..Len(msgs) :
        (msgs[i].role # "system" /\ \A k \in 1..(i - 1) : msgs[k].role = "system") =>
            msgs[i].role = "human"

\* C28: in every list sanitize_messages returns, the first message that is
\* not a System message is a User message.
C28_FirstNonSystemIsUser ==
    /\ san_pc # "input" => FirstNonSystemIsUser(san_out)
    /\ san_pc = "twice" => FirstNonSystemIsUser(san_out2)

\* the list given starts with an orphaned Tool message followed by a System
\* message and an Assistant message; the list returned has a User message put
\* before the System message
C28_Witness ==
    /\ san_pc = "once"
    /\ Len(san_in) >= 3
    /\ san_in[1].role = "tool" /\ san_in[2].role = "system" /\ san_in[3].role = "ai"
    /\ Len(san_out) >= 3
    /\ san_out[1].role = "human" /\ san_out[2].role = "system" /\ san_out[3].role = "ai"

-----------------------------------------------------------------------------
(* The tool batch runner (orchestrator_tool_runner.py) *)

\* final_answer is None
None == "<None>"

\* names in full_tool_map; any other name is an unknown tool
FullToolMap == {"t"}

\* how one valid call ends: the tool returns, the tool raises (after the
\* retries), _execute_single_tool itself raises, the guardian blocks the call
ToolOutcomes == {"ok", "error", "raised", "blocked"}

\* _execute_single_tool, and the ToolMessage execute_tool_batch builds when
\* gather returned an exception for the call
ExecuteSingleTool(tc, outcome) ==
    CASE outcome = "blocked" ->
            ToolMessage("ACTION BLOCKED BY SECURITY PROTOCOL.\nReason: policy\nAction ID: a1\n\n"
                        \o "INSTRUCTION: You must inform the user that this action requires approval. "
                        \o "Ask them to approve Action ID 'a1'.", tc.id, tc.name)
      [] outcome = "ok" -> ToolMessage("ok", tc.id, tc.name)
      [] outcome \in {"error", "raised"} ->
            ToolMessage("Error executing tool " \o tc.name \o ": boom", tc.id, tc.name)

valid_calls(tool_calls) == SelectSeq(tool_calls, LAMBDA tc : tc.name \in FullToolMap)
invalid_calls(tool_calls) == SelectSeq(tool_calls, LAMBDA tc : tc.name \notin FullToolMap)

\* execute_tool_batch: the results of the valid calls in their order, then an
\* error message for each call whose name is not in full_tool_map
execute_tool_batch(tool_calls, outcomes) ==
    LET valid == valid_calls(tool_calls)
        invalid == invalid_calls(tool_calls)
    IN  [i \in 1..Len(valid) |-> ExecuteSingleTool(valid[i], outcomes[i])]
        \o [i \in 1..Len(invalid) |->
               ToolMessage("Error: Tool '" \o invalid[i].name \o "' not found.",
                           invalid[i].id, invalid[i].name)]

-----------------------------------------------------------------------------
(* Session storage (session_manager.py, core/models.py) *)

\* SessionManager.langchain_to_dict
langchain_to_dict(msg) ==
    [role |-> CASE msg.role = "human" -> "user"
                [] msg.role = "ai" -> "ai"
                [] msg.role = "system" -> "system"
                [] msg.role = "tool" -> "tool",
     content |-> msg.content,
     tool_calls |-> IF msg.role = "ai" THEN msg.tool_calls ELSE <<>>,
     tool_call_id |-> IF msg.role = "tool" THEN msg.tool_call_id ELSE 0,
     tool_name |-> IF msg.role = "tool" THEN msg.name ELSE ""]

\* SessionManager.dict_to_langchain
dict_to_langchain(msg) ==
    LET blank == IsBlank(msg.content)
    IN  CASE msg.role = "user" -> HumanMessage(IF blank THEN "(continued)" ELSE msg.content)
          [] msg.role = "ai" ->
                IF msg.tool_calls # <<>> /\ blank
                THEN AIMessage("(calling tools)", msg.tool_calls)
                ELSE IF blank \/ lower(StripChars(msg.content, {"(", ")", " "}))
                                   \in {"empty response", "empty"}
                THEN AIMessage("[no response was generated]", msg.tool_calls)
                ELSE AIMessage(msg.content, msg.tool_calls)
          [] msg.role = "system" -> SystemMessage(IF blank THEN "(system)" ELSE msg.content)
          [] msg.role = "tool" ->
                ToolMessage(IF blank THEN "(empty result)" ELSE msg.content, msg.tool_call_id,
                            IF msg.tool_name = "" THEN "tool" ELSE msg.tool_name)
          [] OTHER -> HumanMessage(IF blank THEN "(continued)" ELSE msg.content)

\* AgentSession.trim_messages
trim_messages_off(s) == s
trim_messages(s) ==
    LET overflow == Len(s.messages) - MAX_SESSION_MESSAGES
    IN  IF overflow > 0
        THEN [messages |-> SubSeq(s.messages, overflow + 1, Len(s.messages)),
              last_summary_index |->
                  IF s.last_summary_index - overflow > 0
                  THEN s.last_summary_index - overflow ELSE 0]
        ELSE s

-----------------------------------------------------------------------------
(* The execution turn loop (orchestrator_execution_loop.py and the text,   *)
(* tool and finalize paths it calls)                                       *)

FullSystemPrompt == "s"
ProviderNote(provider, model) ==
    "\n\n[SYSTEM NOTE: You are running on " \o provider \o "/" \o model \o ". Respond concisely.]"

WrapMsg ==
    HumanMessage("[SYSTEM: You are running low on execution capacity. "
                 \o "Wrap up NOW and provide your final response to the user. "
                 \o "Do NOT make any more tool calls - respond with text only.]")
TrapMsg ==
    HumanMessage("[SYSTEM: You output a text description/simulation of a tool call, but you did NOT execute the real tool. "
                 \o "STOP simulating. USE THE NATIVE TOOL (e.g. 'terminal', 'write_local_file') to execute this action immediately. "
                 \o "Do not just say you are doing it.]")
NudgeToolsMsg ==
    HumanMessage("[SYSTEM: You just received tool results above. "
                 \o "Now synthesize those results into a clear, helpful response for the user. "
                 \o "Do NOT call any more tools - respond with text only.]")
NudgeEmptyMsg ==
    HumanMessage("[SYSTEM: Your previous response was empty. "
                 \o "Please provide a substantive response to the user's request.]")
LoopMsg ==
    HumanMessage("[SYSTEM: You are stuck in a loop, calling the same tools repeatedly with "
                 \o "the same arguments. STOP calling tools. Respond with TEXT only - summarize "
                 \o "what you have so far and ask the user for clarification if needed.]")
StatusPrompt ==
    "SYSTEM: You have used all " \o ToString(MAX_TURNS) \o " execution turns. "
    \o "You MUST respond with text now - absolutely no tool calls. "
    \o "Provide a complete response based on everything you accomplished. "
    \o "Include any partial results and next steps if applicable."

\* the canned answers of the loop
TextFallback ==
    "I processed your request but wasn't able to generate a response. "
    \o "Please try rephrasing or starting a new session."
FinalizeFallback ==
    "I wasn't able to generate a response. Please try again or rephrase your request."
LlmErrorText(err) == "I encountered an error communicating with the LLM: " \o err
RunCancelledText(reason) ==
    "[Run cancelled: " \o (IF reason = None THEN "user request" ELSE reason) \o "]"

\* extract_text_content, for a string content
extract_text_content(content) == IF ~IsBlank(content) THEN strip(content) ELSE None

is_hallucinated_tool_text(answer) ==
    LET lower_ans == lower(answer)
    IN  \/ Contains("**tool call**", lower_ans)
        \/ Contains("executing tool", lower_ans) /\ Len(answer) < 200

is_placeholder_text(answer) ==
    lower(StripChars(answer, {"(", ")", " "}))
        \in {"empty response", "calling tools", "thinking", "continued", "system"}

\* handle_text_response; appended is what it appends to messages and turn_history
handle_text_response(ai_msg, history, nudges) ==
    LET extracted == extract_text_content(ai_msg.content)
        answer == IF extracted # None /\ is_placeholder_text(extracted) THEN None ELSE extracted
    IN  IF extracted # None /\ is_hallucinated_tool_text(extracted)
        THEN [continue_turn |-> TRUE, break_loop |-> FALSE, turn_increment |-> 1,
              nudge_count |-> nudges, final_answer |-> None, appended |-> <<TrapMsg>>]
        ELSE IF answer = None /\ nudges < 3
        THEN [continue_turn |-> TRUE, break_loop |-> FALSE, turn_increment |-> 1,
              nudge_count |-> nudges + 1, final_answer |-> None,
              appended |-> IF \E k \in 1..Len(history) : history[k].role = "tool"
                           THEN <<NudgeToolsMsg>> ELSE <<NudgeEmptyMsg>>]
        ELSE [continue_turn |-> FALSE, break_loop |-> TRUE, turn_increment |-> 0,
              nudge_count |-> nudges,
              final_answer |-> IF answer = None THEN TextFallback ELSE answer,
              appended |-> <<>>]

\* what a forced text call leaves in final_answer (handle_tool_response after a
\* detected loop): None when the call raised or the content is empty
ForcedAnswer(resp) ==
    IF resp.raised \/ resp.content = "" THEN None ELSE strip(resp.content)

\* what the post-loop summary call leaves in final_answer
SummaryAnswer(resp) ==
    IF resp.raised \/ resp.content = "" THEN "" ELSE strip(resp.content)

\* the last part of finalize_execution_output: the answer returned, the turn
\* history, and the messages saved to the session
finalize_execution_output(history, answer) ==
    IF answer = "" \/ IsBlank(answer)
    THEN [final_answer |-> FinalizeFallback,
          turn_history |-> history,
          turn_history_to_save |-> SelectSeq(history, LAMBDA m : m.role # "ai")]
    ELSE [final_answer |-> answer,
          turn_history |-> Append(history, AIMessage(answer, <<>>)),
          turn_history_to_save |-> Append(history, AIMessage(answer, <<>>))]

-----------------------------------------------------------------------------
(* The dead-response filter and optimize_context (context_manager.py) *)

MAX_MESSAGE_WINDOW == 10
max_tokens == 128000

DEAD_RESPONSE_PATTERNS ==
    {"(empty response)",
     "[no response was generated]",
     "(empty)",
     "(thinking)",
     "I processed your request but wasn't able to generate a response. Please try rephrasing or starting a new session.",
     "I processed your request but wasn't able to formulate a response.",
     "I apologize, but I encountered an unexpected issue and could not generate a response. Please try again.",
     "I wasn't able to generate a response. Please try again or rephrase your request.",
     "Max execution turns (5) reached. I was unable to generate a summary. Please try again or rephrase your request.",
     "Max execution turns (5) reached without final answer and summary failed.",
     "Max execution turns (15) reached. I was unable to generate a summary. Please try again or rephrase your request.",
     "Max execution turns (30) reached. I was unable to generate a summary. Please try again or rephrase your request."}

DEAD_RESPONSE_SUBSTRINGS ==
    {"i need your permission",
     "i would need",
     "i will need your",
     "i need to confirm",
     "to proceed, i need",
     "to do this, i need",
     "to ensure i can access",
     "i am ready to check",
     "i'm ready to check",
     "please provide",
     "i'll need your",
     "Error communicating with",
     "encountered a system error"}

\* {p.lower() for p in _DEAD_RESPONSE_PATTERNS}
DeadPatternsLower == {lower(p) : p \in DEAD_RESPONSE_PATTERNS}

\* _is_dead_response
is_dead_response(content) ==
    LET stripped == strip(content)
        lowered == lower(stripped)
    IN  \/ content = ""
        \/ stripped = ""
        \/ lowered \in DeadPatternsLower
        \/ /\ Len(stripped) < 400
           /\ \E sub \in DEAD_RESPONSE_SUBSTRINGS : Contains(sub, lowered)

\* step 3 of optimize_context: a dead Assistant message without tool_calls is
\* skipped, together with the HumanMessage kept right before it
RECURSIVE CleanHistoryKeepDead(_, _, _)
CleanHistoryKeepDead(history, i, cleaned) ==
    IF i > Len(history) THEN cleaned
    ELSE IF /\ history[i].role = "ai"
            /\ history[i].tool_calls = <<>>
            /\ is_dead_response(history[i].content)
            /\ cleaned # <<>> /\ Last(cleaned).role = "human"
    THEN CleanHistoryKeepDead(history, i + 1,
                              Append(SubSeq(cleaned, 1, Len(cleaned) - 1), history[i]))
    ELSE CleanHistoryKeepDead(history, i + 1, Append(cleaned, history[i]))

RECURSIVE CleanHistory(_, _, _)
CleanHistory(history, i, cleaned) ==
    IF i > Len(history) THEN cleaned
    ELSE IF /\ history[i].role = "ai"
            /\ history[i].tool_calls = <<>>
            /\ is_dead_response(history[i].content)
    THEN CleanHistory(history, i + 1,
                      IF cleaned # <<>> /\ Last(cleaned).role = "human"
                      THEN SubSeq(cleaned, 1, Len(cleaned) - 1) ELSE cleaned)
    ELSE CleanHistory(history, i + 1, Append(cleaned, history[i]))

\* _group_messages: an AIMessage with tool_calls and the ToolMessages after it
\* form one group, any other message is a group of its own
RECURSIVE group_messages(_, _)
group_messages(history, i) ==
    IF i > Len(history) THEN <<>>
    ELSE IF HasToolCalls(history[i])
    THEN LET j == ToolRunEnd(history, i)
         IN  <<SubSeq(history, i, j - 1)>> \o group_messages(history, j)
    ELSE <<<<history[i]>>>> \o group_messages(history, i + 1)

estimate_tokens(text) == Len(text) \div 4

RECURSIVE SumTokens(_)
SumTokens(group) ==
    IF group = <<>> THEN 0 ELSE estimate_tokens(group[1].content) + SumTokens(Tail(group))

\* step 4 of optimize_context: the last groups that fit the token budget, at
\* most MAX_MESSAGE_WINDOW of them; g runs from the last group to the first
RECURSIVE SelectGroups(_, _, _, _, _, _)
SelectGroups(groups, g, selected, used_tokens, group_count, token_budget) ==
    IF g < 1 THEN selected
    ELSE LET group_tokens == SumTokens(groups[g])
         IN  IF used_tokens + group_tokens > token_budget /\ selected # <<>> THEN selected
             ELSE IF group_count + 1 >= MAX_MESSAGE_WINDOW THEN groups[g] \o selected
             ELSE SelectGroups(groups, g - 1, groups[g] \o selected,
                               used_tokens + group_tokens, group_count + 1, token_budget)

\* ContextManager.optimize_context, without context files and short-term context
optimize_context(system_prompt, history, new_prompt) ==
    LET cleaned_history == CleanHistory(history, 1, <<>>)
        groups == group_messages(cleaned_history, 1)
        reserved == estimate_tokens(system_prompt) + estimate_tokens(new_prompt) + 4000
        token_budget == IF max_tokens - reserved > 8000 THEN max_tokens - reserved ELSE 8000
        selected_history == SelectGroups(groups, Len(groups), <<>>, 0, 0, token_budget)
    IN  sanitize_messages(<<SystemMessage(system_prompt)>> \o selected_history)

\* build_initial_messages
build_initial_messages(stored, prompt) ==
    optimize_context(FullSystemPrompt, [k \in 1..Len(stored) |-> dict_to_langchain(stored[k])], prompt)

-----------------------------------------------------------------------------
(* Error classification (src/app/agents/error_handler.py) *)

\* re.search of an alternation of literals, IGNORECASE
SearchAny(subs, msg) == LET low == lower(msg) IN \E sub \in subs : Contains(sub, low)

\* re.search of  a.{0,n}(b1|b2|...)  with IGNORECASE
SearchWithin(a, n, bs, msg) ==
    LET low == lower(msg)
    IN  \E i \in 1..Len(low) : \E b \in bs : \E gap \in 0..n :
            /\ i + Len(a) + gap + Len(b) - 1 <= Len(low)
            /\ SubSeq(low, i, i + Len(a) - 1) = a
            /\ SubSeq(low, i + Len(a) + gap, i + Len(a) + gap + Len(b) - 1) = b
            /\ \A k \in (i + Len(a))..(i + Len(a) + gap - 1) : SubSeq(low, k, k) # "\n"

\* the optional separators of max\s*[\._-]?\s*length, timed?\s*out and
\* api[_\s]?key are written out with at most one blank
CONTEXT_OVERFLOW_RE ==
    {"context", "token", "too long", "maxlength", "max length", "max.length",
     "max_length", "max-length"}
RATE_LIMIT_RE == {"rate", "429", "quota", "too many requests"}
AUTH_RE == {"auth", "401", "403", "apikey", "api_key", "api key", "permission"}
TIMEOUT_RE == {"timeout", "timedout", "time out", "timed out", "deadline"}
ROLE_ORDERING_RE == {"role", "turn", "ordering", "must alternate"}
IMAGE_RE == {"image", "vision", "media", "dimension", "size"}
PARSE_RE == {"json", "parse", "decode"}

\* _build_message for an exception without a cause
build_message(exc, context) == IF context # "" THEN context \o " | " \o exc ELSE exc

\* classify_error: the error class of an exception that carries only its
\* text (no status code, not a TimeoutError); the first matching rule wins
classify_error(exception, context) ==
    LET msg == build_message(exception, context)
    IN  IF SearchAny(CONTEXT_OVERFLOW_RE, msg) THEN "context_overflow"
        ELSE IF SearchAny(RATE_LIMIT_RE, msg) THEN "rate_limit"
        ELSE IF SearchAny(AUTH_RE, msg) THEN "auth_error"
        ELSE IF SearchAny(TIMEOUT_RE, msg) THEN "timeout"
        ELSE IF SearchAny(ROLE_ORDERING_RE, msg) THEN "role_ordering"
        ELSE IF SearchAny(IMAGE_RE, msg) THEN "image_error"
        ELSE IF SearchWithin("model", 30, {"not found", "unavailable", "deprecated"}, msg)
             THEN "model_unavailable"
        ELSE IF SearchWithin("tool", 20, {"error"}, msg) \/ SearchWithin("error", 20, {"tool"}, msg)
             THEN "tool_error"
        ELSE IF SearchAny(PARSE_RE, msg) THEN "parse_error"
        ELSE "unknown"

\* _MAX_RETRIES
MAX_RETRIES ==
    [e \in {"context_overflow", "rate_limit", "auth_error", "timeout", "role_ordering",
            "image_error", "model_unavailable", "tool_error", "parse_error", "unknown"} |->
        CASE e = "context_overflow" -> 2
          [] e = "rate_limit" -> 3
          [] e = "auth_error" -> 1
          [] e = "timeout" -> 3
          [] e = "role_ordering" -> 2
          [] e = "image_error" -> 1
          [] e = "model_unavailable" -> 2
          [] e = "tool_error" -> 1
          [] e = "parse_error" -> 2
          [] OTHER -> 2]

\* get_recovery_plan(error, attempt); attempt counts from 1
get_recovery_plan(error_class, attempt) ==
    IF attempt > MAX_RETRIES[error_class] THEN "abort"
    ELSE CASE error_class = "context_overflow" -> "compact_context"
           [] error_class = "rate_limit" -> "rotate_model"
           [] error_class = "auth_error" -> IF attempt <= 1 THEN "rotate_model" ELSE "abort"
           [] error_class = "timeout" -> "rotate_model"
           [] error_class = "role_ordering" -> "reduce_context"
           [] error_class = "image_error" -> "skip_tool"
           [] error_class = "model_unavailable" -> "rotate_model"
           [] error_class = "tool_error" -> IF attempt <= 1 THEN "skip_tool" ELSE "abort"
           [] error_class = "parse_error" -> "retry"
           [] error_class = "unknown" -> IF attempt <= 2 THEN "retry" ELSE "abort"
           [] OTHER -> "abort"

-----------------------------------------------------------------------------
(* FailoverChain (src/app/agents/failover.py) *)

\* a FailoverChain right after construction or reset; _index counts from 0
NewChain(chain) == [chain |-> chain, index |-> 0, failed_indices |-> {}, attempts |-> <<>>]

\* FailoverChain.is_exhausted
is_exhausted(fc) == fc.index >= Len(fc.chain)

\* FailoverChain.get_current: the candidate, or RuntimeError
get_current(fc) ==
    IF is_exhausted(fc) THEN [raised |-> "RuntimeError", value |-> None]
    ELSE [raised |-> None, value |-> fc.chain[fc.index + 1]]

\* the first index from k on that is past the end or not failed (lines 229-231)
RECURSIVE NextUnfailed(_, _, _)
NextUnfailed(k, len, failed) ==
    IF k < len /\ k \in failed THEN NextUnfailed(k + 1, len, failed) ELSE k

\* the index advance moves to
AdvanceTargetRestart(fc, failed) == 0
AdvanceTarget(fc, failed) == NextUnfailed(fc.index + 1, Len(fc.chain), failed)

\* FailoverChain.advance(reason): the chain afterwards and what the call
\* returned; on a chain parked past its end the first line raises IndexError
advance(fc, reason) ==
    IF fc.index >= Len(fc.chain)
    THEN [fc |-> fc, raised |-> "IndexError", value |-> FALSE]
    ELSE LET cur == fc.chain[fc.index + 1]
             failed == fc.failed_indices \cup {fc.index}
             attempts == Append(fc.attempts, [provider |-> cur.provider, model |-> cur.model,
                                              reason |-> reason])
             next_idx == AdvanceTarget(fc, failed)
         IN  [fc |-> [fc EXCEPT !.index = next_idx, !.failed_indices = failed,
                                !.attempts = attempts],
              raised |-> None,
              value |-> next_idx < Len(fc.chain)]

\* FailoverChain.reset
reset(fc) == NewChain(fc.chain)

-----------------------------------------------------------------------------
(* Failover inside invoke_llm_with_recovery
   (src/app/agents/orchestrator_execution_recovery.py) *)

TOOL_UNFRIENDLY_FAILOVER_PROVIDERS == {"nvidia"}

\* _should_skip_failover_candidate
should_skip_failover_candidate(provider, tools) ==
    tools # {} /\ provider \in TOOL_UNFRIENDLY_FAILOVER_PROVIDERS

\* the skip loop (lines 83-93) applied to the result of an advance
RECURSIVE SkipCandidates(_, _)
SkipCandidates(r, tools) ==
    IF r.value /\ should_skip_failover_candidate(get_current(r.fc).value.provider, tools)
    THEN SkipCandidates(advance(r.fc, "skipped: tool-call compatibility"), tools)
    ELSE r

\* lines 82-93: advance with the error text, then past the skipped candidates
FailoverAdvance(fc, invoke_err, tools) == SkipCandidates(advance(fc, invoke_err), tools)

-----------------------------------------------------------------------------
(* What the run meets *)

\* the model's responses
LlmTexts == {"done", "", "(thinking)", "Executing tool t"}
\* a response with tool_calls: an unknown tool "x" and then the known tool "t"
LlmToolResponses == {[content |-> "", names |-> <<"x", "t">>]}
ForcedResponses ==
    {[raised |-> TRUE, content |-> ""], [raised |-> FALSE, content |-> ""],
     [raised |-> FALSE, content |-> "  "], [raised |-> FALSE, content |-> "done"]}
\* the texts of the exceptions a model invocation raises
LlmErrors == {"429 Too Many Requests", "boom"}
\* whether FailoverChain.get_llm can build the candidate's model
GetLlmOutcomes == {"ok", "raised"}
\* the chain _build_chain made: the routed model first; its entries are distinct
ChainCandidates ==
    <<[provider |-> "openai", model |-> "gpt"], [provider |-> "nvidia", model |-> "kimi"]>>
    \o [k \in 1..MaxFailover |-> [provider |-> "ollama", model |-> "llama" \o ToString(k)]]
\* route.provider
route_provider == ChainCandidates[1].provider
\* tools_to_bind: the loop runs with tools
tools_to_bind == FullToolMap
\* classify_error(invoke_err, context="llm.ainvoke") of each exception
ErrorClassOf == [err \in LlmErrors |-> classify_error(err, "llm.ainvoke")]
\* line 81: the strategy asks for another model and the chain is not exhausted
CanRotate(err, turn, fc) ==
    /\ get_recovery_plan(ErrorClassOf[err], turn + 1) \in {"rotate_model", "compact_context"}
    /\ ~is_exhausted(fc)
SteerTexts == {"go"}

\* the session of the run when it starts
StoredSessions ==
    {[messages |-> <<>>, last_summary_index |-> 0],
     [messages |-> <<langchain_to_dict(HumanMessage("hi")),
                     langchain_to_dict(AIMessage("hello", <<>>))>>,
      last_summary_index |-> 2]}

human_msg == HumanMessage("h")

-----------------------------------------------------------------------------
(* run_turn_loop as a process; every action runs from one await to the next *)

LStart ==
    /\ lp_pc = "top"
    /\ run_handle = [status |-> "running", abort_event |-> FALSE, cancel_reason |-> None,
                     steer_queue |-> <<>>, current_turn |-> 0, max_turns |-> MAX_TURNS]
    /\ turn_num = 0
    /\ session = [messages |-> <<>>, last_summary_index |-> 0]
    /\ messages = Append(build_initial_messages(session.messages, human_msg.content), human_msg)
    /\ turn_history = <<human_msg>>
    /\ final_answer = None
    /\ nudge_count = 0
    /\ recent_call_signatures = <<>>
    /\ current_llm = "llm_with_tools"
    /\ failover = NewChain(ChainCandidates)
    /\ hit_turn_limit = FALSE
    /\ dispatch_log = <<>>
    /\ steers_sent = 0

\* finalize_execution_output from its last await on: the messages are saved
\* to the session and the session is trimmed
Save(history, answer, hit) ==
    LET out == finalize_execution_output(history, answer)
        saved == out.turn_history_to_save
    IN  /\ lp_pc' = "done"
        /\ final_answer' = out.final_answer
        /\ turn_history' = out.turn_history
        /\ hit_turn_limit' = hit
        /\ session' = trim_messages(
               [session EXCEPT !.messages =
                    @ \o [k \in 1..Len(saved) |-> langchain_to_dict(saved[k])]])

\* the loop is left with this answer: finalize_execution_output starts; without
\* an answer it asks the model for a summary and waits for it
Finalize(msgs, history, answer) ==
    IF answer = None
    THEN /\ lp_pc' = "summary"
         /\ messages' = sanitize_messages(Append(msgs, HumanMessage(StatusPrompt)))
         /\ turn_history' = history
         /\ final_answer' = answer
         /\ hit_turn_limit' = TRUE
         /\ UNCHANGED session
    ELSE /\ messages' = msgs
         /\ Save(history, answer, FALSE)

\* update_run_turn as the loop calls it
UpdateTurn(h, n) ==
    IF h.max_turns # 0 /\ n > h.max_turns
    THEN [h EXCEPT !.current_turn = n, !.status = "aborted",
                   !.cancel_reason = "max_turns_reached", !.abort_event = TRUE]
    ELSE [h EXCEPT !.current_turn = n]

AbortRequestedNever(h) == FALSE
WrapDueFromThere(turn) == turn >= MAX_TURNS - 2
\* line 79: the wrap-up directive is due in this turn
WrapDue(turn) == turn = MAX_TURNS - 2
\* run_handle and run_handle.abort_event.is_set()
AbortRequested(h) == h.abort_event

\* the head of the while loop up to the model invocation (lines 49-108)
LoopTop ==
    /\ lp_pc = "top"
    /\ IF turn_num >= MAX_TURNS
       THEN /\ Finalize(messages, turn_history, final_answer)
            /\ UNCHANGED <<run_handle, current_llm>>
       ELSE IF AbortRequested(run_handle)
       THEN /\ Finalize(messages, turn_history, RunCancelledText(run_handle.cancel_reason))
            /\ UNCHANGED <<run_handle, current_llm>>
       ELSE LET q == run_handle.steer_queue
                steers == [k \in 1..Len(q) |-> HumanMessage("[USER STEERING]: " \o q[k])]
                wrap == IF WrapDue(turn_num) THEN <<WrapMsg>> ELSE <<>>
            IN  /\ run_handle' = UpdateTurn([run_handle EXCEPT !.steer_queue = <<>>], turn_num + 1)
                /\ messages' = sanitize_messages(messages \o steers \o wrap)
                /\ turn_history' = turn_history \o steers \o wrap
                /\ current_llm' = IF turn_num >= MAX_TURNS - 2
                                  THEN "executor_llm" ELSE "llm_with_tools"
                /\ lp_pc' = "invoke"
                /\ UNCHANGED <<final_answer, session, hit_turn_limit>>
    /\ UNCHANGED <<turn_num, nudge_count, recent_call_signatures, failover,
                   dispatch_log, steers_sent>>
    /\ UNCHANGED LOthers

\* the model answered with text: handle_text_response (lines 132-146)
LlmReturnText(c) ==
    /\ lp_pc \in {"invoke", "reduced"}
    /\ LET r == handle_text_response(AIMessage(c, <<>>), turn_history, nudge_count)
       IN  /\ nudge_count' = r.nudge_count
           /\ IF r.continue_turn
              THEN /\ messages' = messages \o r.appended
                   /\ turn_history' = turn_history \o r.appended
                   /\ final_answer' = r.final_answer
                   /\ turn_num' = turn_num + r.turn_increment
                   /\ lp_pc' = "top"
                   /\ UNCHANGED <<session, hit_turn_limit>>
              ELSE /\ Finalize(messages, turn_history, r.final_answer)
                   /\ UNCHANGED turn_num
    /\ UNCHANGED <<run_handle, recent_call_signatures, current_llm, failover,
                   dispatch_log, steers_sent>>
    /\ UNCHANGED LOthers

\* the model answered with tool_calls: handle_tool_response up to the call of
\* execute_tool_batch, or up to the forced text call when a loop is detected.
\* The calls get fresh ids; every call of a tool has the same args, so that a
\* call's signature (name, args) is its name.
LlmReturnToolCalls(resp) ==
    /\ lp_pc \in {"invoke", "reduced"}
    /\ current_llm = "llm_with_tools"
    /\ LET tool_calls == [k \in 1..Len(resp.names) |->
                              ToolCall(MaxBatchCalls * turn_num + k, resp.names[k])]
           sigs == Append(recent_call_signatures, resp.names)
           n == Len(sigs)
           ai_msg == IF IsBlank(resp.content) THEN AIMessage("(calling tools)", tool_calls)
                     ELSE AIMessage(resp.content, tool_calls)
       IN  /\ recent_call_signatures' = sigs
           /\ IF n >= 3 /\ sigs[n - 2] = sigs[n - 1] /\ sigs[n - 1] = sigs[n]
              THEN /\ messages' = sanitize_messages(Append(messages, LoopMsg))
                   /\ turn_history' = Append(turn_history, LoopMsg)
                   /\ lp_pc' = "loop_forced"
                   /\ UNCHANGED dispatch_log
              ELSE /\ messages' = Append(messages, ai_msg)
                   /\ turn_history' = Append(turn_history, ai_msg)
                   /\ lp_pc' = "tools"
                   /\ dispatch_log' = Append(dispatch_log,
                          [tool_calls |-> tool_calls, abort_event |-> run_handle.abort_event])
    /\ UNCHANGED <<run_handle, turn_num, final_answer, nudge_count, current_llm,
                   failover, session, hit_turn_limit, steers_sent>>
    /\ UNCHANGED LOthers

\* invoke_llm_with_recovery gave up without a failover attempt, or its
\* reduced-context retry failed: the text of the first error is the final answer
LlmFail(err) ==
    /\ \/ lp_pc = "invoke" /\ ~CanRotate(err, turn_num, failover)
       \/ lp_pc = "reduced" /\ get_recovery_plan(ErrorClassOf[err], turn_num + 1)
                                   \in {"rotate_model", "compact_context"}
    /\ Finalize(messages, turn_history, LlmErrorText(err))
    /\ UNCHANGED <<run_handle, turn_num, nudge_count, recent_call_signatures, current_llm,
                   failover, dispatch_log, steers_sent>>
    /\ UNCHANGED LOthers

\* the invocation raised err and invoke_llm_with_recovery advances the chain
\* (lines 81-144). With a candidate and its model built, the first
\* SystemMessage is rebuilt when the provider changed and the turn is retried;
\* otherwise the reduced-context retry follows when there are more than 5
\* messages, and else the error text is the final answer.
LlmFailover(err, get_llm) ==
    /\ lp_pc = "invoke"
    /\ CanRotate(err, turn_num, failover)
    /\ LET r == FailoverAdvance(failover, err, tools_to_bind)
       IN  /\ failover' = r.fc
           /\ IF r.value /\ get_llm = "ok"
              THEN LET cand == get_current(r.fc).value
                   IN  /\ messages' =
                              IF cand.provider # route_provider
                                 /\ \E k \in 1..Len(messages) : messages[k].role = "system"
                              THEN LET mi == CHOOSE k \in 1..Len(messages) :
                                                 /\ messages[k].role = "system"
                                                 /\ \A j \in 1..(k - 1) : messages[j].role # "system"
                                   IN  [messages EXCEPT ![mi] =
                                            SystemMessage(FullSystemPrompt
                                                          \o ProviderNote(cand.provider, cand.model))]
                              ELSE messages
                       /\ lp_pc' = "top"
                       /\ UNCHANGED <<turn_history, final_answer, session, hit_turn_limit>>
              ELSE IF Len(messages) > 5
              THEN /\ lp_pc' = "reduced"
                   /\ UNCHANGED <<messages, turn_history, final_answer, session, hit_turn_limit>>
              ELSE Finalize(messages, turn_history, LlmErrorText(err))
    /\ UNCHANGED <<run_handle, turn_num, nudge_count, recent_call_signatures, current_llm,
                   dispatch_log, steers_sent>>
    /\ UNCHANGED LOthers

\* C35: an attempt is reported as having hit the turn limit only when its
\* turn loop ended because the turn counter reached MAX_TURNS without a
\* final answer; an attempt that left the loop earlier (loop detection, an
\* abort, an error) is not reported so.
C35_HitLimitOnlyAtMaxTurns ==
    hit_turn_limit => turn_num = MAX_TURNS

\* C34: while a model invocation is in flight, the recovery a failure of it
\* would get (whether the failover chain is rotated and the turn retried) is
\* the one the same error would get on the first turn with the same failover
\* chain: it does not depend on the turn index.
C34_RecoveryIndependentOfTurn ==
    lp_pc = "invoke" =>
        \A err \in LlmErrors :
            CanRotate(err, turn_num, failover) = CanRotate(err, 0, failover)

\* turn_num += tool_result["turn_increment"]
NextTurnSame(turn) == turn
NextTurn(turn) == turn + 1

\* execute_tool_batch returned: its messages are appended in the order it
\* returned them (handle_tool_response lines 96-107, loop line 166)
ToolBatchReturn(outcomes) ==
    /\ lp_pc = "tools"
    /\ LET tool_calls == Last(turn_history).tool_calls
           tool_messages == execute_tool_batch(tool_calls, outcomes)
       IN  /\ DOMAIN outcomes = 1..Len(valid_calls(tool_calls))
           /\ messages' = messages \o tool_messages
           /\ turn_history' = turn_history \o tool_messages
    /\ final_answer' = None
    /\ turn_num' = NextTurn(turn_num)
    /\ lp_pc' = "top"
    /\ UNCHANGED <<run_handle, nudge_count, recent_call_signatures, current_llm,
                   failover, session, hit_turn_limit, dispatch_log, steers_sent>>
    /\ UNCHANGED LOthers

\* the forced text call after a detected loop returned (tool path lines 61-79)
LoopForcedReturn(resp) ==
    /\ lp_pc = "loop_forced"
    /\ Finalize(messages, turn_history, ForcedAnswer(resp))
    /\ UNCHANGED <<run_handle, turn_num, nudge_count, recent_call_signatures, current_llm,
                   failover, dispatch_log, steers_sent>>
    /\ UNCHANGED LOthers

\* the post-loop summary call returned (finalize lines 41-71)
SummaryReturn(resp) ==
    /\ lp_pc = "summary"
    /\ Save(turn_history, SummaryAnswer(resp), TRUE)
    /\ UNCHANGED <<run_handle, turn_num, messages, nudge_count, recent_call_signatures,
                   current_llm, failover, dispatch_log, steers_sent>>
    /\ UNCHANGED LOthers

\* abort_run on the run's handle, from another request
LoopAbortRun(reason) ==
    /\ lp_pc # "done"
    /\ run_handle.status = "running"
    /\ run_handle' = [run_handle EXCEPT !.status = "aborted", !.cancel_reason = reason,
                                        !.abort_event = TRUE]
    /\ UNCHANGED <<lp_pc, turn_num, messages, turn_history, final_answer, nudge_count,
                   recent_call_signatures, current_llm, failover, session,
                   hit_turn_limit, dispatch_log, steers_sent>>
    /\ UNCHANGED LOthers

\* the steer endpoint puts a message on the run's steer_queue
LoopSteer(text) ==
    /\ lp_pc # "done"
    /\ run_handle.status = "running"
    /\ steers_sent < MaxSteers
    /\ steers_sent' = steers_sent + 1
    /\ run_handle' = [run_handle EXCEPT !.steer_queue = Append(@, text)]
    /\ UNCHANGED <<lp_pc, turn_num, messages, turn_history, final_answer, nudge_count,
                   recent_call_signatures, current_llm, failover, session,
                   hit_turn_limit, dispatch_log>>
    /\ UNCHANGED LOthers

\* C30: the turn counter never decreases and never exceeds MAX_TURNS, the
\* model is only invoked for a turn below MAX_TURNS, the failover chain only
\* moves forward within its finite length, and an iteration that goes back to
\* the top of the loop has either increased the turn counter by one or, with
\* the turn unchanged, moved the chain past at least one candidate; so the
\* loop ends after at most MAX_TURNS plus the chain's length iterations.
C30_TurnLoopBounded ==
    [][/\ turn_num' \in {turn_num, turn_num + 1}
       /\ turn_num' <= MAX_TURNS
       /\ failover'.index >= failover.index
       /\ failover'.index <= Len(failover'.chain)
       /\ failover'.chain = failover.chain
       /\ (lp_pc = "top" /\ lp_pc' = "invoke") => turn_num < MAX_TURNS
       /\ (lp_pc # "top" /\ lp_pc' = "top") =>
              \/ turn_num' = turn_num + 1
              \/ /\ turn_num' = turn_num
                 /\ failover'.index > failover.index
                 /\ Len(failover'.attempts) > Len(failover.attempts)
      ]_vars

\* the loop has used all its turns after a turn was retried on a failover
\* candidate
C30_Witness ==
    /\ lp_pc = "top"
    /\ turn_num = MAX_TURNS
    /\ failover.attempts # <<>>

LNext ==
    \/ LoopTop
    \/ \E c \in LlmTexts : LlmReturnText(c)
    \/ \E resp \in LlmToolResponses : LlmReturnToolCalls(resp)
    \/ \E err \in LlmErrors : LlmFail(err)
    \/ \E err \in LlmErrors : \E get_llm \in GetLlmOutcomes : LlmFailover(err, get_llm)
    \/ \E n \in 0..MaxBatchCalls : \E outcomes \in [1..n -> ToolOutcomes] : ToolBatchReturn(outcomes)
    \/ \E resp \in ForcedResponses : LoopForcedReturn(resp)
    \/ \E resp \in ForcedResponses : SummaryReturn(resp)
    \/ \E reason \in AbortReasons : LoopAbortRun(reason)
    \/ \E text \in SteerTexts : LoopSteer(text)

-----------------------------------------------------------------------------
(* Tool batches, persisted messages, abort *)

\* C4: when a tool batch has returned, the Tool messages appended after the
\* Assistant message that issued it are one per tool_call and in the order of
\* its tool_calls, unknown tools and failed calls included.
C4_BatchResultsInCallOrder ==
    \A a \in 1..Len(turn_history) :
        (HasToolCalls(turn_history[a]) /\ ~(lp_pc = "tools" /\ a = Len(turn_history))) =>
            /\ a + Len(turn_history[a].tool_calls) <= Len(turn_history)
            /\ \A k \in 1..Len(turn_history[a].tool_calls) :
                   /\ turn_history[a + k].role = "tool"
                   /\ turn_history[a + k].tool_call_id = turn_history[a].tool_calls[k].id

\* C9: in the messages a finished run leaves in the session, every Tool
\* message follows, through Tool messages only, an Assistant message whose
\* tool_calls contain its tool_call_id.
C9_PersistedToolFollowsCall ==
    lp_pc = "done" =>
        \A k \in 1..Len(session.messages) :
            session.messages[k].role = "tool" =>
                \E a \in 1..(k - 1) :
                    /\ session.messages[a].role = "ai"
                    /\ session.messages[a].tool_calls # <<>>
                    /\ \A b \in (a + 1)..(k - 1) : session.messages[b].role = "tool"
                    /\ session.messages[k].tool_call_id \in
                           {session.messages[a].tool_calls[j].id :
                                j \in 1..Len(session.messages[a].tool_calls)}

\* C11: when an iteration of the turn loop begins with the abort signal set,
\* the loop ends in that iteration: the run finishes with the final answer
\* "[Run cancelled: <reason>]", the model is not invoked and no tool batch
\* is dispatched.
C11_AbortEndsIteration ==
    [][(lp_pc = "top" /\ turn_num < MAX_TURNS /\ run_handle.abort_event) =>
           /\ lp_pc' = "done"
           /\ final_answer' = RunCancelledText(run_handle.cancel_reason)
           /\ dispatch_log' = dispatch_log]_vars

C11_Witness ==
    /\ lp_pc = "done"
    /\ run_handle.abort_event
    /\ turn_num > 0
    /\ final_answer = "[Run cancelled: user_cancelled]"

\* the last three tool-call batch signatures are equal
LastThreeEqual(sigs) ==
    /\ Len(sigs) >= 3
    /\ sigs[Len(sigs) - 2] = sigs[Len(sigs) - 1]
    /\ sigs[Len(sigs) - 1] = sigs[Len(sigs)]

\* C12: when a model response makes the last three batch signatures equal, the
\* loop appends the stop directive, dispatches no tools and waits for one
\* forced text call; when that call returns the run is finished (no further
\* model call) and its final answer is the call's text, or a canned fallback
\* when the call gave no text.
C12_LoopBreakOneForcedCall ==
    [][/\ (recent_call_signatures' # recent_call_signatures
            /\ LastThreeEqual(recent_call_signatures')) =>
               /\ lp_pc' = "loop_forced"
               /\ turn_history' = Append(turn_history, LoopMsg)
               /\ dispatch_log' = dispatch_log
               /\ turn_num' = turn_num
       /\ (lp_pc = "loop_forced" /\ lp_pc' # "loop_forced") =>
               /\ lp_pc' = "done"
               /\ \E resp \in ForcedResponses :
                      final_answer' = IF resp.raised \/ IsBlank(resp.content)
                                      THEN FinalizeFallback ELSE strip(resp.content)
      ]_vars

C14_FailoverRetriesSameTurn ==
    [][(lp_pc = "invoke" /\ failover' # failover /\ ~is_exhausted(failover')) =>
           LET failed == get_current(failover).value
               cand == get_current(failover').value
               n == Len(failover.attempts)
           IN  /\ Len(failover'.attempts) > n
               /\ \E err \in LlmErrors :
                      failover'.attempts[n + 1] =
                          [provider |-> failed.provider, model |-> failed.model, reason |-> err]
               /\ lp_pc' = "top"
               /\ turn_num' = turn_num
               /\ messages'[1] = SystemMessage(FullSystemPrompt
                                               \o ProviderNote(cand.provider, cand.model))]_vars

\* C10: no tool batch is dispatched while the run's abort signal is set.
C10_NoDispatchAfterAbort ==
    \A d \in 1..Len(dispatch_log) : ~dispatch_log[d].abort_event

-----------------------------------------------------------------------------
(* Building the context of the next request from the stored session *)

\* the answers a stored Assistant message may carry: the canned failure texts
\* of the loop, an ordinary answer, a short deferral and a long text
StoredAnswers ==
    {TextFallback, FinalizeFallback, "done", "I would need access.",
     Repeat("x", 400) \o " please provide"}
        \cup {LlmErrorText(err) : err \in LlmErrors}
        \cup {RunCancelledText(reason) : reason \in AbortReasons \cup {None}}

StoredUniverse ==
    {langchain_to_dict(HumanMessage("hi")),
     langchain_to_dict(AIMessage("(calling tools)", <<ToolCall(1, "t")>>)),
     langchain_to_dict(ToolMessage("ok", 1, "t"))}
        \cup {langchain_to_dict(AIMessage(a, <<>>)) : a \in StoredAnswers}

StoredLists == UNION {[1..n -> StoredUniverse] : n \in 0..MaxStored}

DStart ==
    /\ dr_session = <<>>
    /\ dr_cleaned = <<>>
    /\ dr_cleaned2 = <<>>
    /\ dr_context = <<>>
    /\ dr_pc = "stored"

\* build_initial_messages on the stored session
BuildContext ==
    /\ dr_pc = "stored"
    /\ dr_cleaned' = CleanHistory([k \in 1..Len(dr_session) |-> dict_to_langchain(dr_session[k])],
                                  1, <<>>)
    /\ dr_context' = build_initial_messages(dr_session, human_msg.content)
    /\ dr_pc' = "built"
    /\ UNCHANGED <<dr_session, dr_cleaned2>>
    /\ UNCHANGED DOthers

\* the dead-response filter of optimize_context applied to the list it gave
FilterAgain ==
    /\ dr_pc = "built"
    /\ dr_cleaned2' = CleanHistory(dr_cleaned, 1, <<>>)
    /\ dr_pc' = "refiltered"
    /\ UNCHANGED <<dr_session, dr_cleaned, dr_context>>
    /\ UNCHANGED DOthers

DNext == BuildContext \/ FilterAgain

\* C27: the dead-response filter applied to a list it has filtered returns
\* that list unchanged.
C27_DeadFilterProjection ==
    dr_pc = "refiltered" => dr_cleaned2 = dr_cleaned

\* the filter had dropped a dead answer together with the user message before
\* it and kept other messages, and was applied again
C27_Witness ==
    /\ dr_pc = "refiltered"
    /\ Len(dr_cleaned) > 0
    /\ Len(dr_cleaned) + 2 <= Len(dr_session)

\* the canned failure texts the loop can return as its final answer
CannedFailureTexts ==
    {TextFallback, FinalizeFallback}
        \cup {LlmErrorText(err) : err \in LlmErrors}
        \cup {RunCancelledText(reason) : reason \in AbortReasons \cup {None}}

\* C8: after the dead-response filter no Assistant message without tool_calls
\* carries one of the loop's canned failure texts.
C8_CannedFailuresFiltered ==
    dr_pc = "built" =>
        \A k \in 1..Len(dr_cleaned) :
            ~(/\ dr_cleaned[k].role = "ai"
              /\ dr_cleaned[k].tool_calls = <<>>
              /\ dr_cleaned[k].content \in CannedFailureTexts)

-----------------------------------------------------------------------------
(* execute_with_retries (src/app/agents/orchestrator_run_execution.py) *)

\* what orchestrator._execute returns: (response, hit_limit)
ExecuteReturns == {[response |-> "done", hit_limit |-> FALSE],
                   [response |-> "summary", hit_limit |-> TRUE]}
\* the texts of the exceptions orchestrator._execute raises
ExecuteErrors == {"429 Too Many Requests", "invalid api key", "boom"}

\* max_attempts (line 31)
max_attempts == IF ex_setting > 1 THEN ex_setting ELSE 1

EStart ==
    /\ ex_pc = "executing"
    /\ ex_setting = 1
    /\ ex_attempt = 0
    /\ ex_failover = NewChain(ChainCandidates)
    /\ ex_route = ChainCandidates[1]
    /\ ex_response = None
    /\ ex_hit_limit = FALSE
    /\ ex_outcomes = <<>>

\* the for loop goes to its next iteration and calls _execute again, or ends
NextAttempt ==
    IF ex_attempt + 1 < max_attempts
    THEN ex_attempt' = ex_attempt + 1 /\ ex_pc' = "executing"
    ELSE ex_attempt' = ex_attempt /\ ex_pc' = "returned"

\* _execute returned (lines 81-96)
ExecuteReturn(ret) ==
    /\ ex_pc = "executing"
    /\ ex_response' = ret.response
    /\ ex_hit_limit' = ret.hit_limit
    /\ ex_outcomes' = Append(ex_outcomes, IF ret.hit_limit THEN "hit_limit" ELSE "answered")
    /\ IF ~ret.hit_limit
       THEN ex_pc' = "returned" /\ ex_attempt' = ex_attempt
       ELSE NextAttempt
    /\ UNCHANGED <<ex_setting, ex_failover, ex_route>>
    /\ UNCHANGED EOthers

\* _execute raised (lines 97-123)
ExecuteRaise(e) ==
    /\ ex_pc = "executing"
    /\ ex_outcomes' = Append(ex_outcomes, "raised")
    /\ LET strategy == get_recovery_plan(classify_error(e, "orchestrator._execute"),
                                         ex_attempt + 1)
       IN  IF strategy = "rotate_model" /\ ~is_exhausted(ex_failover)
           THEN LET fc == advance(ex_failover, e).fc
                    cur == get_current(fc)
                IN  /\ ex_failover' = fc
                    /\ IF cur.raised # None
                       THEN /\ ex_pc' = "raised"
                            /\ UNCHANGED <<ex_attempt, ex_route, ex_response, ex_hit_limit>>
                       ELSE /\ ex_route' = cur.value
                            /\ ex_response' = None
                            /\ ex_hit_limit' = FALSE
                            /\ NextAttempt
           ELSE IF strategy = "abort"
           THEN /\ ex_pc' = "returned"
                /\ UNCHANGED <<ex_attempt, ex_failover, ex_route, ex_response, ex_hit_limit>>
           ELSE /\ ex_response' = None
                /\ ex_hit_limit' = FALSE
                /\ NextAttempt
                /\ UNCHANGED <<ex_failover, ex_route>>
    /\ UNCHANGED ex_setting
    /\ UNCHANGED EOthers

ENext ==
    \/ \E ret \in ExecuteReturns : ExecuteReturn(ret)
    \/ \E e \in ExecuteErrors : ExecuteRaise(e)

\* the calls of _execute made so far
AttemptsStarted == Len(ex_outcomes) + (IF ex_pc = "executing" THEN 1 ELSE 0)

\* C15: a run calls _execute at most AGENT_EXECUTION_MAX_ATTEMPTS times, and
\* every call after the first follows a call that returned with the turn
\* limit hit.
C15_RetryOnlyAfterTurnLimit ==
    /\ AttemptsStarted <= ex_setting
    /\ \A k \in 1..Len(ex_outcomes) : k < AttemptsStarted => ex_outcomes[k] = "hit_limit"

\* C36: no exception raised inside an execution attempt leaves
\* execute_with_retries: each one leads to a further attempt or to a stop and
\* the function returns, also when the recovery by ROTATE_MODEL finds the
\* failover chain exhausted or exhausts it.
C36_NoExceptionEscapes ==
    ex_pc # "raised"

-----------------------------------------------------------------------------
(* build_execution_plan (src/app/agents/orchestrator_planning.py) *)

\* PlanStep
PlanStep(id, title, description, depends_on, parallelizable, priority) ==
    [id |-> id, title |-> title, description |-> description, depends_on |-> depends_on,
     parallelizable |-> parallelizable, priority |-> priority]

\* a or b on strings
OrElse(a, b) == IF a # "" THEN a ELSE b

\* min(max(int(priority), 1), 5)
ClampPriorityNot(p) == p
ClampPriority(p) == IF p < 1 THEN 1 ELSE IF p > 5 THEN 5 ELSE p

\* the steps of the fallback plan (lines 91-105)
FallbackSteps(user_prompt) ==
    <<PlanStep("s1", "Execute requested task", user_prompt, <<>>, FALSE, 3)>>

\* SelectSeq with a predicate on the element
RECURSIVE FilterSeq(_, _, _)
FilterSeq(s, keep, k) ==
    IF k > Len(s) THEN <<>>
    ELSE (IF s[k] \in keep THEN <<s[k]>> ELSE <<>>) \o FilterSeq(s, keep, k + 1)

\* the normalisation of the steps (lines 107-122)
NormalizeSteps(steps) ==
    LET known_ids == {steps[k].id : k \in 1..Len(steps)}
    IN  [idx \in 1..Len(steps) |->
            LET step == steps[idx]
                sid == OrElse(strip(step.id), "s" \o ToString(idx))
                deps == FilterSeq(step.depends_on, known_ids \ {sid}, 1)
            IN  PlanStep(sid,
                         OrElse(strip(step.title), "Step " \o ToString(idx)),
                         OrElse(strip(step.description),
                                OrElse(strip(step.title), "Step " \o ToString(idx))),
                         deps,
                         step.parallelizable /\ deps = <<>>,
                         ClampPriority(step.priority))]

\* build_execution_plan: result is what the planner chain gave
build_execution_plan(result, user_prompt) ==
    NormalizeSteps(IF result.raised THEN FallbackSteps(user_prompt) ELSE result.steps)

\* what the planner model can put into a step
RawIds == {"", "a", " a", "b"}
RawPriorities == {0, 3, 9}
RawDepends == {<<>>} \cup {<<d>> : d \in RawIds}
RawSteps ==
    {PlanStep(id, "T", "", deps, par, prio) :
        id \in RawIds, deps \in RawDepends, par \in BOOLEAN, prio \in RawPriorities}
RawPlans ==
    {[raised |-> TRUE, steps |-> <<>>]}
    \cup {[raised |-> FALSE, steps |-> steps] :
             steps \in UNION {[1..n -> RawSteps] : n \in 0..MaxPlanSteps}}

PStart ==
    /\ bp_result = [raised |-> TRUE, steps |-> <<>>]
    /\ bp_plan = <<>>
    /\ bp_pc = "planning"

BuildPlan ==
    /\ bp_pc = "planning"
    /\ bp_plan' = build_execution_plan(bp_result, "plan it")
    /\ bp_pc' = "built"
    /\ UNCHANGED bp_result
    /\ UNCHANGED POthers

PNext == BuildPlan

\* C18: in the returned plan every step has a non-empty id, every entry of
\* depends_on is the id of another step of the returned plan, every priority
\* is in 1..5 and a step with dependencies is not parallelizable.
C18_PlanNormalized ==
    bp_pc = "built" =>
        \A i \in 1..Len(bp_plan) :
            /\ bp_plan[i].id # ""
            /\ \A k \in 1..Len(bp_plan[i].depends_on) :
                   \E j \in 1..Len(bp_plan) : j # i /\ bp_plan[j].id = bp_plan[i].depends_on[k]
            /\ bp_plan[i].priority \in 1..5
            /\ (bp_plan[i].depends_on # <<>> => ~bp_plan[i].parallelizable)

\* the ids the steps called id depend on directly
DependsOnIds(plan, id) ==
    UNION {{plan[i].depends_on[k] : k \in 1..Len(plan[i].depends_on)} :
              i \in {j \in 1..Len(plan) : plan[j].id = id}}

\* the ids reached from ids in at most n steps of the dependency relation
RECURSIVE ReachableIds(_, _, _)
ReachableIds(plan, ids, n) ==
    IF n = 0 THEN ids
    ELSE ReachableIds(plan, ids \cup UNION {DependsOnIds(plan, d) : d \in ids}, n - 1)

\* C38: the dependency relation among the steps of the returned plan is
\* acyclic: no step is reached from its own dependencies, so that each task
\* made from the plan becomes ready once the steps before it have completed.
C38_PlanAcyclic ==
    bp_pc = "built" =>
        \A i \in 1..Len(bp_plan) :
            bp_plan[i].id \notin
                ReachableIds(bp_plan, DependsOnIds(bp_plan, bp_plan[i].id), Len(bp_plan))

-----------------------------------------------------------------------------
(* Plan approval: should_request_plan_approval, run_orchestrator's approval
   branch, Guardian's actions and the approve and reject endpoints *)

\* str.startswith
StartsWith(s, prefix) == Len(s) >= Len(prefix) /\ SubSeq(s, 1, Len(prefix)) = prefix

planning_cues ==
    {"plan", "roadmap", "break", "phases", "long-running", "long running", "step by step",
     "multi-step", "project"}

\* should_request_plan_approval
should_request_plan_approval(req) ==
    IF ~req.require THEN FALSE
    ELSE IF StartsWith(req.session_id, "task_") \/ StartsWith(req.session_id, "sub-") THEN FALSE
    ELSE IF req.session_id = "heartbeat_session" THEN FALSE
    ELSE IF Contains("Background Task Execution:", req.user_prompt) THEN FALSE
    ELSE IF req.selected_tools = <<>> THEN FALSE
    ELSE LET lowered == lower(req.user_prompt)
         IN  \E cue \in planning_cues : Contains(cue, lowered)

\* the requests
Requests ==
    {[user_prompt |-> p, session_id |-> sid, selected_tools |-> tools, require |-> req] :
        p \in {"Plan the trip", "hi", "Background Task Execution: plan"},
        sid \in {"u1", "task_1", "sub-1", "heartbeat_session"},
        tools \in {<<>>, <<"t">>},
        req \in BOOLEAN}

\* what the planner gives: an exception, or a plan of 0..MaxApprovalSteps steps
\* with the ids s1, s2, ..., each depending on the step before it
PlannerStep(k) ==
    PlanStep("s" \o ToString(k), "T", "D",
             IF k = 1 THEN <<>> ELSE <<"s" \o ToString(k - 1)>>, FALSE, 3)
PlannerResults ==
    {[raised |-> TRUE, steps |-> <<>>]}
    \cup {[raised |-> FALSE, steps |-> [k \in 1..n |-> PlannerStep(k)]] : n \in 0..MaxApprovalSteps}

\* the action ids the endpoints are called with: the one create_plan_approval
\* made (its uuid is written 1) and one that no action has
ActionIds == {"plan_1", "plan_x"}

\* the metadata before any approval response
NoMetadata == [approval_required |-> FALSE, action_id |-> None]

AStart ==
    /\ ap_pc = "deciding"
    /\ ap_request = [user_prompt |-> "hi", session_id |-> "u1", selected_tools |-> <<>>,
                     require |-> FALSE]
    /\ ap_planner = [raised |-> TRUE, steps |-> <<>>]
    /\ ap_metadata = NoMetadata
    /\ pending_actions = <<>>
    /\ tasks = <<>>
    /\ ap_calls = 0
    /\ ap_last = None

\* Guardian.create_plan_approval
create_plan_approval(actions, action_id, session_id, goal, plan) ==
    [a \in DOMAIN actions \cup {action_id} |->
        IF a = action_id
        THEN [id |-> action_id, action_type |-> "plan_approval", tool_name |-> "execute_plan",
              tool_args |-> [session_id |-> session_id, goal |-> goal, plan |-> plan],
              status |-> "pending"]
        ELSE actions[a]]

\* the threshold of line 127
PlanNeedsApproval(steps) == Len(steps) >= 2

\* run_orchestrator from the approval check to the approval response or to the
\* call of execute_with_retries (lines 125-175)
DecidePlanApproval ==
    /\ ap_pc = "deciding"
    /\ LET steps == build_execution_plan(ap_planner, ap_request.user_prompt)
       IN  IF should_request_plan_approval(ap_request) /\ PlanNeedsApproval(steps)
           THEN /\ pending_actions' = create_plan_approval(pending_actions, "plan_1",
                                          ap_request.session_id, ap_request.user_prompt,
                                          [name |-> "P", steps |-> steps])
                /\ ap_metadata' = [approval_required |-> TRUE, action_id |-> "plan_1"]
                /\ ap_pc' = "approval_required"
           ELSE /\ ap_pc' = "executing"
                /\ UNCHANGED <<pending_actions, ap_metadata>>
    /\ UNCHANGED <<ap_request, ap_planner, tasks, ap_calls, ap_last>>
    /\ UNCHANGED AOthers

\* Guardian.approve_action and Guardian.reject_action: the status is set
\* whatever it was
SetStatus(actions, action_id, status) ==
    IF action_id \in DOMAIN actions
    THEN [actions EXCEPT ![action_id].status = status]
    ELSE actions

\* the tasks the approve endpoint adds for a plan (lines 393-428)
PlanTasks(action_id, action) ==
    LET steps == action.tool_args.plan.steps
    IN  [k \in 1..Len(steps) |->
            [title |-> "[Plan] " \o action.tool_args.plan.name \o ": " \o steps[k].title,
             plan_action_id |-> action_id,
             step_id |-> steps[k].id,
             depends_on |-> steps[k].depends_on,
             parallelizable |-> steps[k].parallelizable,
             priority |-> ClampPriority(steps[k].priority)]]

\* POST /approve/{action_id}
ApproveAction(action_id) ==
    /\ ap_calls < MaxApprovalCalls
    /\ ap_calls' = ap_calls + 1
    /\ IF action_id \in DOMAIN pending_actions
       THEN LET approved == SetStatus(pending_actions, action_id, "approved")
                action == approved[action_id]
            IN  IF action.action_type = "plan_approval" /\ action.status = "approved"
                THEN /\ tasks' = tasks \o PlanTasks(action_id, action)
                     /\ pending_actions' = SetStatus(approved, action_id, "consumed")
                     /\ ap_last' = [call |-> "approve", action_id |-> action_id,
                                    status |-> "approved_and_enqueued"]
                ELSE /\ pending_actions' = approved
                     /\ ap_last' = [call |-> "approve", action_id |-> action_id,
                                    status |-> "approved"]
                     /\ UNCHANGED tasks
       ELSE /\ ap_last' = [call |-> "approve", action_id |-> action_id, status |-> "404"]
            /\ UNCHANGED <<pending_actions, tasks>>
    /\ UNCHANGED <<ap_pc, ap_request, ap_planner, ap_metadata>>
    /\ UNCHANGED AOthers

\* POST /reject/{action_id}
RejectAction(action_id) ==
    /\ ap_calls < MaxApprovalCalls
    /\ ap_calls' = ap_calls + 1
    /\ pending_actions' = SetStatus(pending_actions, action_id, "rejected")
    /\ ap_last' = [call |-> "reject", action_id |-> action_id,
                   status |-> IF action_id \in DOMAIN pending_actions THEN "rejected" ELSE "404"]
    /\ UNCHANGED <<ap_pc, ap_request, ap_planner, ap_metadata, tasks>>
    /\ UNCHANGED AOthers

ANext ==
    \/ DecidePlanApproval
    \/ \E action_id \in ActionIds : ApproveAction(action_id)
    \/ \E action_id \in ActionIds : RejectAction(action_id)

\* C16: once run_orchestrator has passed the approval check of a request for
\* which should_request_plan_approval is true, it has answered with
\* approval_required = true and an action_id and has not started an execution
\* attempt, however many steps the plan has.
C16_ApprovalBeforeExecution ==
    (ap_pc # "deciding" /\ should_request_plan_approval(ap_request)) =>
        /\ ap_pc = "approval_required"
        /\ ap_metadata.approval_required
        /\ ap_metadata.action_id \in DOMAIN pending_actions

\* the tasks of the queue that belong to step k of the plan of an action
TasksOfStep(queue, action_id, step_id) ==
    {k \in 1..Len(queue) : queue[k].plan_action_id = action_id /\ queue[k].step_id = step_id}

\* C17: an approve call on a pending plan-approval action adds exactly one
\* task per step of its plan and leaves the action consumed, and whatever
\* approve and reject calls are made, no step of a plan has more than one task.
C17_PlanEnqueuedOnce ==
    [][/\ \A a \in DOMAIN pending_actions :
              (/\ ap_calls' = ap_calls + 1
               /\ ap_last' = [call |-> "approve", action_id |-> a,
                              status |-> "approved_and_enqueued"]
               /\ pending_actions[a].status = "pending") =>
                  /\ tasks' = tasks \o PlanTasks(a, pending_actions[a])
                  /\ Len(PlanTasks(a, pending_actions[a])) = Len(pending_actions[a].tool_args.plan.steps)
                  /\ pending_actions'[a].status = "consumed"
       /\ \A a \in DOMAIN pending_actions' :
              \A k \in 1..Len(pending_actions'[a].tool_args.plan.steps) :
                  Cardinality(TasksOfStep(tasks', a,
                                          pending_actions'[a].tool_args.plan.steps[k].id)) <= 1
      ]_vars

-----------------------------------------------------------------------------
(* FailoverChain under any sequence of calls *)

\* the chains _build_chain makes: distinct candidates, at least one
Chains == {[k \in 1..n |-> [provider |-> "p" \o ToString(k), model |-> "m" \o ToString(k)]] :
              n \in 1..MaxChainLen}
AdvanceReasons == {"429 Too Many Requests", ""}

FStart ==
    /\ fo_chain = NewChain(<<[provider |-> "ollama", model |-> "llama3"]>>)
    /\ fo_last = [call |-> "init", raised |-> None, value |-> None]

ChainAdvance(reason) ==
    /\ LET r == advance(fo_chain, reason)
       IN  /\ fo_chain' = r.fc
           /\ fo_last' = [call |-> "advance", raised |-> r.raised, value |-> r.value]
    /\ UNCHANGED FOthers

ChainGetCurrent ==
    /\ fo_last' = [call |-> "get_current", raised |-> get_current(fo_chain).raised,
                   value |-> get_current(fo_chain).value]
    /\ UNCHANGED fo_chain
    /\ UNCHANGED FOthers

ChainIsExhausted ==
    /\ fo_last' = [call |-> "is_exhausted", raised |-> None, value |-> is_exhausted(fo_chain)]
    /\ UNCHANGED fo_chain
    /\ UNCHANGED FOthers

ChainReset ==
    /\ fo_chain' = reset(fo_chain)
    /\ fo_last' = [call |-> "reset", raised |-> None, value |-> None]
    /\ UNCHANGED FOthers

FNext ==
    \/ \E reason \in AdvanceReasons : ChainAdvance(reason)
    \/ ChainGetCurrent
    \/ ChainIsExhausted
    \/ ChainReset

\* the candidates advance has marked as failed since the last reset
FailedCandidates == {fo_chain.chain[i + 1] : i \in fo_chain.failed_indices}

\* C19: a candidate that advance has marked as failed is not returned by
\* get_current before the next reset, whatever calls are made in between.
C19_FailedNeverCurrent ==
    (fo_last.call = "get_current" /\ fo_last.raised = None) =>
        fo_last.value \notin FailedCandidates

C19_Witness ==
    /\ fo_last.call = "get_current"
    /\ fo_last.raised = None
    /\ Cardinality(fo_chain.failed_indices) >= 2

-----------------------------------------------------------------------------
(* The run handle over the life of execute_with_retries *)

LifeOthers == <<qvars, svars, lvars, dvars, evars, pvars, avars, fvars, mvars, kvars, hvars, tvars, gvars>>
MOthers == <<qvars, rvars, svars, lvars, dvars, evars, pvars, avars, fvars, uvars, kvars, hvars, tvars, gvars>>
KOthers == <<qvars, rvars, svars, lvars, dvars, evars, pvars, avars, fvars, uvars, mvars, hvars, tvars, gvars>>

\* the calls of execute_with_retries: each registers one handle
LifeRuns == 1..MaxHandles
\* the ways the execution phase ends
EndCauses == {"final_answer", "abort", "watchdog_timeout", "exhausted_attempts", "exception"}

\* what complete_run does to the handle it popped
CompletedHandle(h) ==
    [h EXCEPT !.status = "completed", !.done_event = TRUE, !.timeout_task = CancelWatchdog(h)]

UStart ==
    /\ rl_pc = [k \in LifeRuns |-> "new"]
    /\ rl_session = [k \in LifeRuns |-> 0]
    /\ rl_handle = [k \in LifeRuns |-> 0]
    /\ rl_cause = [k \in LifeRuns |-> "None"]

\* execute_with_retries up to its first await: register_run, and when that
\* raises ValueError, complete_run and register_run again
LifeRegister(k, s, tmo) ==
    /\ rl_pc[k] = "new"
    /\ next_handle <= MaxHandles
    /\ LET h == next_handle
           old == ACTIVE_RUNS[s]
           cleaned == IF AlreadyActive(s)
                      THEN [handles EXCEPT ![old] = CompletedHandle(handles[old])]
                      ELSE handles
       IN  /\ handles' = [cleaned EXCEPT ![h] = NewHandle(s, RunMaxTurns, tmo)]
           /\ ACTIVE_RUNS' = [ACTIVE_RUNS EXCEPT ![s] = h]
           /\ live_handles' = (live_handles \ {old}) \cup {h}
           /\ next_handle' = h + 1
           /\ reg_last' = [op |-> "register_run", session |-> s, had |-> 0,
                           had_state |-> NoHandle, raised |-> FALSE, ret |-> h]
           /\ rl_handle' = [rl_handle EXCEPT ![k] = h]
    /\ rl_session' = [rl_session EXCEPT ![k] = s]
    /\ rl_pc' = [rl_pc EXCEPT ![k] = "executing"]
    /\ UNCHANGED rl_cause
    /\ UNCHANGED LifeOthers

\* the turn loop of an executing call: update_run_turn(session.session_id, turn_num + 1)
LifeUpdateTurn(k, n) ==
    /\ rl_pc[k] = "executing"
    /\ UpdateRunTurn(rl_session[k], n)

\* the execution phase ends and the finally clause runs:
\* if run_handle: complete_run(session.session_id)
LifeEnd(k, cause) ==
    /\ rl_pc[k] = "executing"
    /\ cause = "abort" => handles[rl_handle[k]].cancel_reason \in AbortReasons \cup {"max_turns_reached"}
    /\ cause = "watchdog_timeout" => handles[rl_handle[k]].cancel_reason = "timeout"
    /\ LET s == rl_session[k]
           h == ACTIVE_RUNS[s]
       IN  IF rl_handle[k] = 0 \/ h = 0
           THEN UNCHANGED <<ACTIVE_RUNS, handles, live_handles>>
           ELSE /\ ACTIVE_RUNS' = [ACTIVE_RUNS EXCEPT ![s] = 0]
                /\ handles' = [handles EXCEPT ![h] = CompletedHandle(handles[h])]
                /\ live_handles' = live_handles \ {h}
    /\ reg_last' = [op |-> "complete_run", session |-> 0, had |-> 0,
                    had_state |-> NoHandle, raised |-> FALSE, ret |-> 0]
    /\ rl_pc' = [rl_pc EXCEPT ![k] = "ended"]
    /\ rl_cause' = [rl_cause EXCEPT ![k] = cause]
    /\ UNCHANGED <<next_handle, rl_session, rl_handle>>
    /\ UNCHANGED LifeOthers

UNext ==
    \/ \E k \in LifeRuns, s \in Sessions, tmo \in TimeoutMsArgs : LifeRegister(k, s, tmo)
    \/ \E k \in LifeRuns, n \in TurnArgs : LifeUpdateTurn(k, n)
    \/ \E k \in LifeRuns, cause \in EndCauses : LifeEnd(k, cause)
    \/ \E s \in Sessions, reason \in AbortReasons : AbortRun(s, reason)
    \/ \E w \in HandleIds : AutoAbort(w)

\* C22: when the execution phase of a run ends, whatever ended it, the
\* registry holds no handle for the run's session, the done signal of the
\* run's handle is set and its watchdog is not pending any more, so that a
\* register_run for the session that follows does not raise.
C22_HandleReleasedAtEnd ==
    [][\A k \in LifeRuns :
          (rl_pc[k] = "executing" /\ rl_pc'[k] = "ended") =>
              /\ ACTIVE_RUNS'[rl_session[k]] = 0
              /\ handles'[rl_handle[k]].done_event
              /\ handles'[rl_handle[k]].timeout_task # "sleeping"
              /\ ~(AlreadyActive(rl_session[k]))'
      ]_vars

\* two runs of one session have ended, one by the watchdog and one by an abort
C22_Witness ==
    \E k, j \in LifeRuns :
        /\ rl_pc[k] = "ended" /\ rl_pc[j] = "ended"
        /\ rl_session[k] = rl_session[j]
        /\ rl_cause[k] = "watchdog_timeout"
        /\ rl_cause[j] = "abort"

\* C33: while a run is executing, the registry entry of its session is the
\* handle this run registered: neither the start nor the completion of
\* another run of the session removes or replaces it.
C33_ExecutingRunOwnsEntry ==
    \A k \in LifeRuns :
        rl_pc[k] = "executing" => ACTIVE_RUNS[rl_session[k]] = rl_handle[k]

-----------------------------------------------------------------------------
(* The session over a run: appends, trims and short-term summarization *)

\* messages a run persists: a user message and an assistant message that has
\* tool calls and no text
SessionMsgs ==
    {langchain_to_dict(HumanMessage("q")),
     langchain_to_dict(AIMessage("", <<ToolCall(1, "t")>>))}
\* turn_history_to_save of one attempt
AppendBatches == UNION {[1..n -> SessionMsgs] : n \in 1..MaxAppend}

\* unsummarized_count >= SUMMARY_INTERVAL
SummaryTriggered(s) == Len(s.messages) - s.last_summary_index >= SUMMARY_INTERVAL

\* transcript_lines of summarize_to_short_term: the messages from start_idx to
\* end_idx whose content is not blank
transcript_lines(s, start_idx, end_idx) ==
    SelectSeq(SubSeq(s.messages, start_idx + 1, end_idx),
              LAMBDA m : ~(m.content = "" \/ strip(m.content) = ""))

\* session.last_summary_index after the model call of the summarization
\* returned, raised or timed out
IndexAfterSummaryOnSuccess(outcome, end_idx, lsi) == IF outcome = "success" THEN end_idx ELSE lsi
IndexAfterSummary(outcome, end_idx, lsi) == end_idx

SummaryOutcomes == {"success", "failed", "timeout"}

MStart ==
    /\ ss_pc = "saved"
    /\ ss_session = [messages |-> <<>>, last_summary_index |-> 0]
    /\ ss_stored = [messages |-> <<>>, last_summary_index |-> 0]
    /\ ss_attempt = 0
    /\ ss_end_idx = 0
    /\ ss_last = "init"

\* SessionManager.load_session for the next request
LoadSession ==
    /\ ss_pc = "saved"
    /\ ss_session' = ss_stored
    /\ ss_pc' = "executing"
    /\ ss_attempt' = 0
    /\ ss_last' = "load"
    /\ UNCHANGED <<ss_stored, ss_end_idx>>
    /\ UNCHANGED MOthers

\* an attempt ends in finalize_execution_output: the turn history is appended
\* to session.messages and session.trim_messages() is called
FinalizeAppend(batch) ==
    /\ ss_pc = "executing"
    /\ ss_attempt < MaxAttemptsSetting
    /\ ss_attempt' = ss_attempt + 1
    /\ ss_session' = trim_messages([ss_session EXCEPT !.messages = @ \o batch])
    /\ ss_last' = "finalize"
    /\ UNCHANGED <<ss_pc, ss_stored, ss_end_idx>>
    /\ UNCHANGED MOthers

\* execute_with_retries returns; run_orchestrator checks the summary trigger
\* and summarize_to_short_term runs up to its model call
SummaryCheck ==
    /\ ss_pc = "executing"
    /\ LET start_idx == ss_session.last_summary_index
           end_idx == Len(ss_session.messages)
       IN  IF ~SummaryTriggered(ss_session) \/ end_idx - start_idx < SUMMARY_INTERVAL
           THEN /\ ss_pc' = "checked"
                /\ ss_last' = "no_summary"
                /\ UNCHANGED <<ss_session, ss_end_idx>>
           ELSE IF transcript_lines(ss_session, start_idx, end_idx) = <<>>
           THEN /\ ss_session' = [ss_session EXCEPT !.last_summary_index = end_idx]
                /\ ss_end_idx' = end_idx
                /\ ss_pc' = "checked"
                /\ ss_last' = "summarize_empty"
           ELSE /\ ss_end_idx' = end_idx
                /\ ss_pc' = "summarizing"
                /\ ss_last' = "summarize_started"
                /\ UNCHANGED ss_session
    /\ UNCHANGED <<ss_stored, ss_attempt>>
    /\ UNCHANGED MOthers

\* the model call of the summarization returns, raises or times out
SummarizeReturn(outcome) ==
    /\ ss_pc = "summarizing"
    /\ ss_session' = [ss_session EXCEPT !.last_summary_index =
                          IndexAfterSummary(outcome, ss_end_idx, @)]
    /\ ss_pc' = "checked"
    /\ ss_last' = "summarize_" \o outcome
    /\ UNCHANGED <<ss_stored, ss_attempt, ss_end_idx>>
    /\ UNCHANGED MOthers

\* SessionManager.save_session(result.session_data)
SaveSession ==
    /\ ss_pc = "checked"
    /\ ss_session' = trim_messages(ss_session)
    /\ ss_stored' = trim_messages(ss_session)
    /\ ss_pc' = "saved"
    /\ ss_last' = "save"
    /\ UNCHANGED <<ss_attempt, ss_end_idx>>
    /\ UNCHANGED MOthers

MNext ==
    \/ LoadSession
    \/ \E batch \in AppendBatches : FinalizeAppend(batch)
    \/ SummaryCheck
    \/ \E outcome \in SummaryOutcomes : SummarizeReturn(outcome)
    \/ SaveSession

\* C24: after every trim_messages (at the end of an attempt and in
\* save_session), 0 <= last_summary_index <= len(messages) <= MAX_SESSION_MESSAGES.
C24_SummaryIndexInRange ==
    ss_last \in {"finalize", "save"} =>
        /\ 0 <= ss_session.last_summary_index
        /\ ss_session.last_summary_index <= Len(ss_session.messages)
        /\ Len(ss_session.messages) <= MAX_SESSION_MESSAGES

\* a trim dropped messages of a session that had been summarized
C24_Witness ==
    /\ ss_last = "finalize"
    /\ Len(ss_session.messages) = MAX_SESSION_MESSAGES
    /\ ss_session.last_summary_index > 0
    /\ ss_session.last_summary_index < ss_stored.last_summary_index

\* C25: when a triggered summarization has returned, with a summary, after a
\* failed or timed-out model call, or with an empty transcript,
\* last_summary_index is the message count at its start, and the trigger
\* condition is false.
C25_SummaryIndexAdvances ==
    ss_last \in {"summarize_empty"} \cup {"summarize_" \o o : o \in SummaryOutcomes} =>
        /\ ss_session.last_summary_index = ss_end_idx
        /\ ~SummaryTriggered(ss_session)

\* the model call of a summarization timed out
C25_Witness ==
    /\ ss_last = "summarize_timeout"
    /\ ss_end_idx >= SUMMARY_INTERVAL

\* a summarization of blank messages returned without a model call
C25_WitnessEmpty ==
    /\ ss_last = "summarize_empty"
    /\ ss_end_idx >= SUMMARY_INTERVAL

-----------------------------------------------------------------------------
(* RelationshipMemoryStore.upsert_facts *)

\* str.rstrip(chars)
RStripChars(s, chars) ==
    LET kept == {i \in 1..Len(s) : SubSeq(s, i, i) \notin chars}
    IN  IF kept = {} THEN ""
        ELSE SubSeq(s, 1, CHOOSE i \in kept : \A j \in kept : i >= j)

\* re.sub(r"\s+", " ", s) from position i on
RECURSIVE CollapseFrom(_, _)
CollapseFrom(s, i) ==
    IF i > Len(s) THEN ""
    ELSE LET c == SubSeq(s, i, i)
         IN  IF c \in Whitespace
             THEN (IF i > 1 /\ SubSeq(s, i - 1, i - 1) \in Whitespace THEN "" ELSE " ")
                  \o CollapseFrom(s, i + 1)
             ELSE c \o CollapseFrom(s, i + 1)

\* _normalize_fact
normalize_fact(text) == CollapseFrom(RStripChars(strip(text), {".", "!", "?"}), 1)

\* _clamp_confidence, in hundredths
clamp_confidence(value) == IF value < 0 THEN 0 ELSE IF value > 100 THEN 100 ELSE value

\* sorted({t.strip().lower() for t in item.tags if t and t.strip()}): a sorted
\* list without duplicates, kept as the set of its elements
NormalTags(tags) == {lower(strip(t)) : t \in {u \in tags : u # "" /\ strip(u) # ""}}

\* the facts, tag lists and confidences given to upsert_facts
RawFacts == {"A b.", "a  b", "a b !", " .", "c"}
RawTags == {{}, {"Pref"}, {"pref ", "style"}}
RawConfidences == {85}
FactInputs == [fact : RawFacts, tags : RawTags, confidence : RawConfidences]
UpsertInputs == UNION {[1..n -> FactInputs] : n \in 1..MaxUpsertItems}

\* _normalize_fact of every fact given, and its lower-case form
NormalizedOf == [f \in RawFacts |-> normalize_fact(f)]
NormalizedLowerOf == [f \in RawFacts |-> lower(NormalizedOf[f])]
NormalTagsOf == [tags \in RawTags |-> NormalTags(tags)]

\* the key upsert_facts looks up in by_norm: normalized.lower()
LookupKeyNotLowered(f) == NormalizedOf[f]
LookupKey(f) == NormalizedLowerOf[f]

\* by_norm.get(key): the position in store.facts of the last fact with this
\* normalized_fact, 0 when there is none
ByNorm(facts, key) ==
    LET at == {k \in 1..Len(facts) : facts[k].normalized_fact = key}
    IN  IF at = {} THEN 0 ELSE CHOOSE k \in at : \A j \in at : k >= j

\* one turn of the loop over the facts given (lines 86-118)
UpsertOne(facts, item, source) ==
    LET normalized == NormalizedOf[item.fact]
        tags == NormalTagsOf[item.tags]
        confidence == clamp_confidence(item.confidence)
        existing == ByNorm(facts, LookupKey(item.fact))
    IN  IF normalized = "" THEN facts
        ELSE IF existing # 0
        THEN [facts EXCEPT ![existing] =
                 [@ EXCEPT !.tags = @ \cup tags,
                           !.confirmations = @ + 1,
                           !.confidence = clamp_confidence(
                               (IF @ > confidence THEN @ ELSE confidence) + 3),
                           !.source = source]]
        ELSE Append(facts, [fact |-> normalized,
                            normalized_fact |-> NormalizedLowerOf[item.fact],
                            tags |-> tags, confidence |-> confidence,
                            confirmations |-> 1, source |-> source])

RECURSIVE UpsertAll(_, _, _, _)
UpsertAll(facts, items, source, k) ==
    IF k > Len(items) THEN facts
    ELSE UpsertAll(UpsertOne(facts, items[k], source), items, source, k + 1)

KStart ==
    /\ rm_facts = <<>>
    /\ rm_calls = 0
    /\ rm_last = [items |-> <<>>, before |-> <<>>]

\* RelationshipMemoryStore.upsert_facts: load, upsert every fact given, save
UpsertFacts(items) ==
    /\ rm_calls < MaxUpserts
    /\ rm_calls' = rm_calls + 1
    /\ rm_facts' = UpsertAll(rm_facts, items, "user_profile_auto", 1)
    /\ rm_last' = [items |-> items, before |-> rm_facts]
    /\ UNCHANGED KOthers

KNext == \E items \in UpsertInputs : UpsertFacts(items)

\* how many of the facts given have this normalized form
GivenCount(items, key) ==
    Cardinality({k \in 1..Len(items) :
                    NormalizedOf[items[k].fact] # "" /\ NormalizedLowerOf[items[k].fact] = key})
\* the tags given with this normalized form
GivenTags(items, key) ==
    UNION {NormalTagsOf[items[k].tags] :
              k \in {j \in 1..Len(items) : NormalizedLowerOf[items[j].fact] = key}}
StoredAt(facts, key) == {k \in 1..Len(facts) : facts[k].normalized_fact = key}

\* C26: the store never holds two entries with one normalized_fact, and an
\* upsert of a fact whose normalized form is stored adds no entry, raises the
\* confirmations of its entry by one for each time it is given and adds the
\* given tags to the entry's tags; a fact given twice to an empty store ends
\* as one entry with two confirmations.
C26_UpsertIdempotent ==
    \A key \in {NormalizedLowerOf[f] : f \in RawFacts} :
        LET items == rm_last.items
            before == StoredAt(rm_last.before, key)
            after == StoredAt(rm_facts, key)
            n == GivenCount(items, key)
        IN  /\ Cardinality(after) <= 1
            /\ before # {} =>
                  /\ after = before
                  /\ \A k \in before :
                        /\ rm_facts[k].confirmations = rm_last.before[k].confirmations + n
                        /\ rm_facts[k].tags =
                              IF n > 0 THEN rm_last.before[k].tags \cup GivenTags(items, key)
                              ELSE rm_last.before[k].tags
            /\ (before = {} /\ n > 0 /\ key # "") =>
                  \A k \in after : rm_facts[k].confirmations = n
            /\ (n > 0 /\ key # "") => after # {}

\* a fact was given again in another spelling and with other tags: one entry,
\* confirmed at least twice, holding the tags of both calls
C26_Witness ==
    /\ rm_calls >= 2
    /\ \E k \in 1..Len(rm_facts) :
          /\ rm_facts[k].fact = "A b"
          /\ rm_facts[k].confirmations >= 2
          /\ rm_facts[k].tags = {"pref", "style"}
    /\ Cardinality(StoredAt(rm_facts, "a b")) = 1

-----------------------------------------------------------------------------
(* Chat requests: lease, load_session, run, save_session, release *)

ChatOthers == <<rvars, svars, lvars, dvars, evars, pvars, avars, fvars, uvars, mvars, kvars, tvars, gvars>>
TOthers == <<qvars, rvars, svars, lvars, dvars, evars, pvars, avars, fvars, uvars, mvars, kvars, hvars, gvars>>
GOthers == <<qvars, rvars, svars, lvars, dvars, evars, pvars, avars, fvars, uvars, mvars, kvars, hvars, tvars>>

\* the messages the run of a request adds to its session
RunMsgsOf ==
    [r \in Runs |-> <<langchain_to_dict(HumanMessage("q" \o ToString(r))),
                      langchain_to_dict(AIMessage("a" \o ToString(r), <<>>))>>]

HStart ==
    /\ ch_pc = [r \in Runs |-> "none"]
    /\ ch_loaded = [r \in Runs |-> <<>>]
    /\ ch_store = [s \in Sessions |-> <<>>]
    /\ ch_saved_log = <<>>

\* acquire returned the lease: session = await sessions.load_session(req.session_id)
ChatLoad(r) ==
    /\ qpc[r] = "leased"
    /\ ch_pc[r] = "none"
    /\ ch_loaded' = [ch_loaded EXCEPT ![r] = ch_store[entry_session[r]]]
    /\ ch_pc' = [ch_pc EXCEPT ![r] = "loaded"]
    /\ UNCHANGED <<ch_store, ch_saved_log>>
    /\ UNCHANGED qvars
    /\ UNCHANGED ChatOthers

\* agent.run returns and save_session(result.session_data) writes the session
\* (which trims it), or agent.run raises and nothing is saved
ChatRunEnds(r, ok) ==
    /\ ch_pc[r] = "loaded"
    /\ IF ok
       THEN /\ ch_store' = [ch_store EXCEPT ![entry_session[r]] =
                   trim_messages([messages |-> ch_loaded[r] \o RunMsgsOf[r],
                                  last_summary_index |-> 0]).messages]
            /\ ch_saved_log' = Append(ch_saved_log, r)
            /\ ch_pc' = [ch_pc EXCEPT ![r] = "saved"]
       ELSE /\ ch_pc' = [ch_pc EXCEPT ![r] = "failed"]
            /\ UNCHANGED <<ch_store, ch_saved_log>>
    /\ UNCHANGED ch_loaded
    /\ UNCHANGED qvars
    /\ UNCHANGED ChatOthers

\* the release of the lease stands in the finally clause, after the save
MayReleaseAnyTime(r) == TRUE
MayRelease(r) == ch_pc[r] \in {"saved", "failed"}

\* finally: await run_lane_queue.release(lease)
ChatRelease(r) == MayRelease(r) /\ Release(r)

\* except asyncio.TimeoutError: await run_lane_queue.cancel(queue_entry.run_id)
ChatCancel(r) == qpc[r] = "timed_out" /\ Cancel(r)

HNext ==
    \/ \E s \in Sessions : Enqueue(s)
    \/ \E r \in Runs : AcquireWaitHead(r)
    \/ \E r \in Runs : AcquireSemWake(r)
    \/ \E r \in Runs : AcquireLockWake(r)
    \/ \E r \in Runs : AcquireTimeout(r)
    \/ \E r \in Runs : ChatCancel(r)
    \/ \E r \in Runs : ChatLoad(r)
    \/ \E r \in Runs, ok \in BOOLEAN : ChatRunEnds(r, ok)
    \/ \E r \in Runs : ChatRelease(r)

\* the messages of the runs of session s that saved, in the order of the saves
RECURSIVE PersistedBy(_, _)
PersistedBy(log, s) ==
    IF log = <<>> THEN <<>>
    ELSE (IF entry_session[log[1]] = s THEN RunMsgsOf[log[1]] ELSE <<>>)
         \o PersistedBy(Tail(log), s)

\* the last MAX_SESSION_MESSAGES of a list
KeptTail(msgs) ==
    IF Len(msgs) > MAX_SESSION_MESSAGES
    THEN SubSeq(msgs, Len(msgs) - MAX_SESSION_MESSAGES + 1, Len(msgs)) ELSE msgs

\* C29: of the runs admitted through the lane queue no two of one session are
\* between their load_session and their save_session at the same time, each
\* has loaded what the runs of its session saved before it, and the stored
\* session holds the messages of the runs that saved, in the order they
\* completed, none missing (up to the cap of MAX_SESSION_MESSAGES).
C29_SessionRunsSerial ==
    /\ \A a, b \in Runs :
          (a # b /\ ch_pc[a] = "loaded" /\ ch_pc[b] = "loaded") =>
              entry_session[a] # entry_session[b]
    /\ \A r \in Runs :
          ch_pc[r] = "loaded" => ch_loaded[r] = ch_store[entry_session[r]]
    /\ \A s \in Sessions : ch_store[s] = KeptTail(PersistedBy(ch_saved_log, s))

\* two requests on one session both saved, and the stored session holds the
\* messages of the first followed by those of the second
C29_Witness ==
    /\ Len(ch_saved_log) >= 2
    /\ entry_session[ch_saved_log[1]] = entry_session[ch_saved_log[2]]
    /\ ch_store[entry_session[ch_saved_log[1]]] =
          RunMsgsOf[ch_saved_log[1]] \o RunMsgsOf[ch_saved_log[2]]

-----------------------------------------------------------------------------
(* Short-term memory: daily files and their expiry *)

HoursPerDay == 24
MaxClock == HoursPerDay + MaxClockPastMidnight
StDays == 0..(MaxClock \div HoursPerDay)

\* the public and private methods class ShortTermMemoryManager defines
ShortTermMemoryManagerMethods ==
    {"__init__", "_get_store_path", "_load_store", "_save_store", "add_memory",
     "get_today_memories", "get_today_context", "cleanup_old_memories", "list_all"}

\* attribute lookup on a ShortTermMemoryManager: a name the class does not
\* define raises AttributeError
HasMethod(name) == name \in ShortTermMemoryManagerMethods

\* the number of entries stored for all sessions
RECURSIVE StCount(_, _)
StCount(files, todo) ==
    IF todo = {} THEN 0
    ELSE LET p == CHOOSE q \in todo : TRUE
         IN  Len(files[p[1]][p[2]]) + StCount(files, todo \ {p})
StPaths(files) == {<<s, d>> : s \in Sessions, d \in StDays} \cap
                  {p \in Sessions \X StDays : p[2] \in DOMAIN files[p[1]]}

\* add_memory: _load_store of today's file (a new store when there is no
\* file), append, _save_store
add_memory(files, now, s) ==
    LET today == now \div HoursPerDay
        old == IF today \in DOMAIN files[s] THEN files[s][today] ELSE <<>>
    IN  [files EXCEPT ![s] =
            [d \in (DOMAIN files[s]) \cup {today} |->
                IF d = today THEN Append(old, now) ELSE files[s][d]]]

\* the entries of one file that cleanup_old_memories keeps (lines 148-151)
StKept(mems, now, older_than_hours) ==
    SelectSeq(mems, LAMBDA ts : now - ts < older_than_hours)

\* cleanup_old_memories(session_id, older_than_hours): session 0 stands for
\* None, all sessions; a file left without entries is removed
cleanup_old_memories(files, now, session_id, older_than_hours) ==
    [s \in Sessions |->
        IF session_id # 0 /\ s # session_id THEN files[s]
        ELSE LET left == {d \in DOMAIN files[s] :
                              StKept(files[s][d], now, older_than_hours) # <<>>}
             IN  [d \in left |-> StKept(files[s][d], now, older_than_hours)]]

\* short_term_memory.cleanup_expired(...): the class defines no method of
\* this name (its cleanup method is cleanup_old_memories), so the attribute
\* lookup raises before anything is cleaned
cleanup_expired(files, now, session_id) ==
    IF HasMethod("cleanup_expired")
    THEN [raised |-> "<None>", files |-> cleanup_old_memories(files, now, session_id, 2)]
    ELSE [raised |-> "AttributeError", files |-> files]

\* no file is stored yet
TIdle ==
    /\ st_files = [s \in Sessions |-> <<>>]
    /\ st_last = [call |-> "init", session |-> 0, raised |-> "<None>"]
TStart == st_now = 0 /\ TIdle

\* time passes
StTick ==
    /\ st_now < MaxClock
    /\ st_now' = st_now + 1
    /\ st_last' = [call |-> "tick", session |-> 0, raised |-> "<None>"]
    /\ UNCHANGED st_files
    /\ UNCHANGED TOthers

\* summarize_to_short_term stores a summary (orchestrator_memory.py line 84)
StAddMemory(s) ==
    /\ StCount(st_files, StPaths(st_files)) < MaxStEntries
    /\ st_files' = add_memory(st_files, st_now, s)
    /\ st_last' = [call |-> "add_memory", session |-> s, raised |-> "<None>"]
    /\ UNCHANGED st_now
    /\ UNCHANGED TOthers

\* run_orchestrator after an execution: try cleanup_expired(session_id),
\* except Exception: pass
PostExecutionCleanup(s) ==
    LET r == cleanup_expired(st_files, st_now, s)
    IN  /\ st_files' = r.files
        /\ st_last' = [call |-> "post_execution", session |-> s, raised |-> r.raised]
        /\ UNCHANGED st_now
        /\ UNCHANGED TOthers

\* cleanup_short_term_memories_task, every 30 minutes: the exception leaves
\* the job function and is logged by the scheduler
CronCleanup ==
    LET r == cleanup_expired(st_files, st_now, 0)
    IN  /\ st_files' = r.files
        /\ st_last' = [call |-> "cron", session |-> 0, raised |-> r.raised]
        /\ UNCHANGED st_now
        /\ UNCHANGED TOthers

TNext ==
    \/ StTick
    \/ \E s \in Sessions : StAddMemory(s)
    \/ \E s \in Sessions : PostExecutionCleanup(s)
    \/ CronCleanup

\* the entries of session s that are 2 hours old or older, by file
StExpired(s) ==
    {<<d, k>> \in StDays \X (1..MaxStEntries) :
        /\ d \in DOMAIN st_files[s]
        /\ k <= Len(st_files[s][d])
        /\ st_now - st_files[s][d][k] >= 2}
StEmptyFiles(s) == {d \in DOMAIN st_files[s] : st_files[s][d] = <<>>}

\* C31: right after the post-execution cleanup of a run (for the run's
\* session) and right after a run of the periodic cleanup job (for every
\* session), no stored short-term entry is 2 hours old or older and no daily
\* file is empty.
C31_NoExpiredAfterCleanup ==
    /\ st_last.call = "post_execution" =>
           StExpired(st_last.session) = {} /\ StEmptyFiles(st_last.session) = {}
    /\ st_last.call = "cron" =>
           \A s \in Sessions : StExpired(s) = {} /\ StEmptyFiles(s) = {}

-----------------------------------------------------------------------------
(* The task queue and the heartbeat that works it off *)

MAX_PARALLEL_READY_TASKS == 3

\* decode_plan_description of a description without plan metadata gives {}:
\* meta.get then yields no step id, no dependencies and parallelizable False
NoPlanMeta ==
    [plan_action_id |-> "", step_id |-> "", depends_on |-> <<>>, parallelizable |-> FALSE]

\* encode_plan_description(description, meta): the metadata is carried in the
\* description in front of its text, and decode_plan_description gives both back
encode_plan_description(description, meta) == [meta |-> meta, text |-> description]
plain_description(description) == [meta |-> NoPlanMeta, text |-> description]
decode_plan_description(description) == <<description.meta, description.text>>

\* AgentTask(title, description, priority) as add_task stores it
AgentTask(title, description, priority) ==
    [title |-> title, description |-> description, priority |-> priority, status |-> "pending"]

\* the plans waiting for approval: both have the steps s1 and s2, s2 depending
\* on s1; the planner let the first step run in parallel
QueuedStep(k) ==
    PlanStep("s" \o ToString(k), "T", "D",
             IF k = 1 THEN <<>> ELSE <<"s" \o ToString(k - 1)>>, k = 1, 3)
QueuedPlanSteps == [k \in 1..MaxQueuedSteps |-> QueuedStep(k)]
PlanActionIds == {"plan_1", "plan_2"}

\* the tasks approve_action adds for the steps of a plan (lines 394-419)
approve_action_tasks(action_id, plan_name, steps) ==
    [k \in 1..Len(steps) |->
        AgentTask("[Plan] " \o plan_name \o ": " \o steps[k].title,
                  encode_plan_description(
                      steps[k].description,
                      [plan_action_id |-> action_id, step_id |-> steps[k].id,
                       depends_on |-> steps[k].depends_on,
                       parallelizable |-> steps[k].parallelizable]),
                  ClampPriority(steps[k].priority))]
PlanTasksOf == [a \in PlanActionIds |-> approve_action_tasks(a, "P", QueuedPlanSteps)]

\* the tasks POST /tasks is called with
PostedTasks == {AgentTask("[Scheduled] job", plain_description("run it"), 4)}
IsScheduled(task) == StartsWith(task.title, "[Scheduled] ")

\* db.get_tasks(status): ORDER BY priority DESC, created_at ASC
RECURSIVE SortIds(_, _)
SortIds(rows, ids) ==
    IF ids = {} THEN <<>>
    ELSE LET first == CHOOSE i \in ids : \A j \in ids :
                          \/ rows[i].priority > rows[j].priority
                          \/ rows[i].priority = rows[j].priority /\ i <= j
         IN  <<first>> \o SortIds(rows, ids \ {first})
get_tasks(rows, status) ==
    SortIds(rows, {i \in 1..Len(rows) : rows[i].status = status})

\* _completed_plan_step_ids: the step ids of all completed tasks
completed_plan_step_ids(rows) ==
    {decode_plan_description(rows[i].description)[1].step_id :
        i \in {j \in 1..Len(rows) :
                  /\ rows[j].status = "completed"
                  /\ decode_plan_description(rows[j].description)[1].step_id # ""}}

\* _dependencies_satisfied
dependencies_satisfied(task, completed_step_ids) ==
    LET deps == decode_plan_description(task.description)[1].depends_on
    IN  \A k \in 1..Len(deps) : deps[k] \in completed_step_ids

\* list_ready_pending(limit)
list_ready_pending(rows, limit) ==
    LET done == completed_plan_step_ids(rows)
        ready == SelectSeq(get_tasks(rows, "pending"),
                           LAMBDA i : dependencies_satisfied(rows[i], done))
    IN  SubSeq(ready, 1, IF Len(ready) < limit THEN Len(ready) ELSE limit)

\* allows_parallel
allows_parallel(task) == decode_plan_description(task.description)[1].parallelizable

\* update_task_status: UPDATE tasks SET status, updated_at = now WHERE id
update_task_status(db, id, status) ==
    [tasks |-> [db.tasks EXCEPT ![id].status = status],
     in_progress |-> RemoveFromSeq(db.in_progress, id)
                     \o (IF status = "in_progress" THEN <<id>> ELSE <<>>),
     stale |-> db.stale \ {id}]
RECURSIVE UpdateAll(_, _, _)
UpdateAll(db, ids, status) ==
    IF ids = <<>> THEN db
    ELSE UpdateAll(update_task_status(db, Head(ids), status), Tail(ids), status)

\* reconcile_stale_in_progress: every in-progress row whose updated_at is at or
\* before its cutoff is marked failed
reconcile_stale_in_progress(db) ==
    UpdateAll(db, SelectSeq(get_tasks(db.tasks, "in_progress"), LAMBDA i : i \in db.stale),
              "failed")

\* reconcile_duplicate_scheduled_active: of the active scheduled tasks with
\* one title and description, the in-progress one updated first is kept, or
\* else the oldest one; the others are marked failed
DuplicateGroup(rows, i) ==
    {j \in 1..Len(rows) :
        /\ rows[j].status \in {"pending", "in_progress"}
        /\ IsScheduled(rows[j])
        /\ rows[j].title = rows[i].title
        /\ rows[j].description = rows[i].description}
KeepId(db, group) ==
    LET running == SelectSeq(db.in_progress, LAMBDA j : j \in group)
    IN  IF running # <<>> THEN Head(running)
        ELSE CHOOSE j \in group : \A k \in group : j <= k
RECURSIVE DescendingIds(_)
DescendingIds(ids) ==
    IF ids = {} THEN <<>>
    ELSE LET top == CHOOSE i \in ids : \A j \in ids : i >= j
         IN  <<top>> \o DescendingIds(ids \ {top})
reconcile_duplicate_scheduled_active(db) ==
    LET dropped == {i \in 1..Len(db.tasks) :
                       /\ db.tasks[i].status \in {"pending", "in_progress"}
                       /\ IsScheduled(db.tasks[i])
                       /\ Cardinality(DuplicateGroup(db.tasks, i)) > 1
                       /\ i # KeepId(db, DuplicateGroup(db.tasks, i))}
    IN  UpdateAll(db, DescendingIds(dropped), "failed")

\* the stale and the duplicate reconciliation, as tick and list_tasks run them
Reconciled(db) == reconcile_duplicate_scheduled_active(reconcile_stale_in_progress(db))

\* the tasks one tick hands to process_task (heartbeat.py lines 65-78)
TickTasks(rows) ==
    LET ready_tasks == list_ready_pending(rows, MAX_PARALLEL_READY_TASKS)
        parallel_ready == SelectSeq(ready_tasks, LAMBDA i : allows_parallel(rows[i]))
    IN  IF ready_tasks = <<>> THEN <<>>
        ELSE IF Len(parallel_ready) >= 2 THEN parallel_ready
        ELSE <<Head(ready_tasks)>>

TaskDb == [tasks |-> tq_tasks, in_progress |-> tq_in_progress, stale |-> tq_stale]
SetTaskDb(db) ==
    /\ tq_tasks' = db.tasks
    /\ tq_in_progress' = db.in_progress
    /\ tq_stale' = db.stale

GStart ==
    /\ tq_tasks = <<>>
    /\ tq_in_progress = <<>>
    /\ tq_stale = {}
    /\ tq_approved = {}
    /\ hb_pc = "sleeping"
    /\ hb_running = {}

\* POST /approve/{action_id} of a plan approval: one task per step
EnqueuePlan(action_id) ==
    /\ action_id \notin tq_approved
    /\ Len(tq_tasks) + Len(PlanTasksOf[action_id]) <= MaxTasks
    /\ tq_tasks' = tq_tasks \o PlanTasksOf[action_id]
    /\ tq_approved' = tq_approved \cup {action_id}
    /\ UNCHANGED <<tq_in_progress, tq_stale, hb_pc, hb_running>>
    /\ UNCHANGED GOthers

\* POST /tasks
AddTask(task) ==
    /\ Len(tq_tasks) < MaxTasks
    /\ tq_tasks' = Append(tq_tasks, task)
    /\ UNCHANGED <<tq_in_progress, tq_stale, tq_approved, hb_pc, hb_running>>
    /\ UNCHANGED GOthers

\* the clock passes the cutoff of an in-progress task (3600 s after its
\* updated_at, 900 s for a scheduled task)
TimePasses(id) ==
    /\ id \in Range(tq_in_progress)
    /\ id \notin tq_stale
    /\ tq_stale' = tq_stale \cup {id}
    /\ UNCHANGED <<tq_tasks, tq_in_progress, tq_approved, hb_pc, hb_running>>
    /\ UNCHANGED GOthers

\* AgentHeartbeat.tick up to its first await: both reconciliations, then
\* process_task of the ready tasks up to its await of orchestrator.run
HeartbeatTick ==
    /\ hb_pc = "sleeping"
    /\ LET db == Reconciled(TaskDb)
           picked == TickTasks(db.tasks)
       IN  /\ SetTaskDb(UpdateAll(db, picked, "in_progress"))
           /\ hb_running' = Range(picked)
           /\ hb_pc' = IF picked = <<>> THEN "sleeping" ELSE "processing"
    /\ UNCHANGED tq_approved
    /\ UNCHANGED GOthers

\* process_task after orchestrator.run: the task is marked completed, or
\* failed when the run raised; tick returns when all its tasks are through
ProcessTaskEnd(id, raised) ==
    /\ id \in hb_running
    /\ SetTaskDb(update_task_status(TaskDb, id, IF raised THEN "failed" ELSE "completed"))
    /\ hb_running' = hb_running \ {id}
    /\ hb_pc' = IF hb_running' = {} THEN "sleeping" ELSE "processing"
    /\ UNCHANGED tq_approved
    /\ UNCHANGED GOthers

\* GET /tasks: list_tasks runs both reconciliations (in a worker thread, at
\* any time)
ListTasks ==
    /\ SetTaskDb(Reconciled(TaskDb))
    /\ UNCHANGED <<tq_approved, hb_pc, hb_running>>
    /\ UNCHANGED GOthers

GNext ==
    \/ \E a \in PlanActionIds : EnqueuePlan(a)
    \/ \E task \in PostedTasks : AddTask(task)
    \/ \E id \in 1..MaxTasks : TimePasses(id)
    \/ HeartbeatTick
    \/ \E id \in 1..MaxTasks, raised \in BOOLEAN : ProcessTaskEnd(id, raised)
    \/ ListTasks

TaskIds == 1..Len(tq_tasks)

\* every step the task depends on has a completed task in the task's own plan
dependencies_satisfied_own_plan(rows, task) ==
    LET meta == decode_plan_description(task.description)[1]
    IN  \A k \in 1..Len(meta.depends_on) :
            \E j \in 1..Len(rows) :
                /\ rows[j].status = "completed"
                /\ rows[j].description.meta.plan_action_id = meta.plan_action_id
                /\ rows[j].description.meta.step_id = meta.depends_on[k]

\* C37: a task made from a plan step is started only when every step it
\* depends on in its own plan has completed; a completed step with the same
\* id in another plan does not make it ready.
C37_StartOnlyAfterOwnDependencies ==
    [][\A id \in TaskIds :
          (tq_tasks[id].status = "pending" /\ tq_tasks'[id].status = "in_progress") =>
              dependencies_satisfied_own_plan(tq_tasks, tq_tasks[id])
      ]_vars

\* C39: the statuses completed and failed are final: a task that has one of
\* them keeps it, whatever the heartbeat and the reconciliations do after.
C39_TerminalStatusesFinal ==
    [][\A id \in TaskIds :
          tq_tasks[id].status \in {"completed", "failed"} =>
              tq_tasks'[id].status = tq_tasks[id].status
      ]_vars

-----------------------------------------------------------------------------
(* Specifications: one per component; the other components stay idle *)

QIdle == QStart /\ max_global_concurrency = MaxConcurrency

QInit == QStart /\ RStart /\ SStart /\ LStart /\ DStart /\ EStart /\ PStart /\ AStart /\ FStart /\ UStart /\ MStart /\ KStart /\ HStart /\ TStart /\ GStart
SpecQueue == QInit /\ [][QNext]_vars

RInit == RStart /\ QIdle /\ SStart /\ LStart /\ DStart /\ EStart /\ PStart /\ AStart /\ FStart /\ UStart /\ MStart /\ KStart /\ HStart /\ TStart /\ GStart
SpecQueueLive == QInit /\ [][QLiveNext]_vars /\ QLiveFairness

SpecRegistry == RInit /\ [][RNext]_vars

SInit ==
    /\ san_in \in MsgLists
    /\ san_out = <<>>
    /\ san_out2 = <<>>
    /\ san_pc = "input"
    /\ QIdle /\ RStart /\ LStart /\ DStart /\ EStart /\ PStart /\ AStart /\ FStart /\ UStart /\ MStart /\ KStart /\ HStart /\ TStart /\ GStart
SpecSanitize == SInit /\ [][SNext]_vars

LInit ==
    /\ lp_pc = "top"
    /\ run_handle = [status |-> "running", abort_event |-> FALSE, cancel_reason |-> None,
                     steer_queue |-> <<>>, current_turn |-> 0, max_turns |-> MAX_TURNS]
    /\ turn_num = 0
    /\ session \in StoredSessions
    /\ messages = Append(build_initial_messages(session.messages, human_msg.content), human_msg)
    /\ turn_history = <<human_msg>>
    /\ final_answer = None
    /\ nudge_count = 0
    /\ recent_call_signatures = <<>>
    /\ current_llm = "llm_with_tools"
    /\ failover = NewChain(ChainCandidates)
    /\ hit_turn_limit = FALSE
    /\ dispatch_log = <<>>
    /\ steers_sent = 0
    /\ QIdle /\ RStart /\ SStart /\ DStart /\ EStart /\ PStart /\ AStart /\ FStart /\ UStart /\ MStart /\ KStart /\ HStart /\ TStart /\ GStart
SpecLoop == LInit /\ [][LNext]_vars

DInit ==
    /\ dr_session \in StoredLists
    /\ dr_cleaned = <<>>
    /\ dr_cleaned2 = <<>>
    /\ dr_context = <<>>
    /\ dr_pc = "stored"
    /\ QIdle /\ RStart /\ SStart /\ LStart /\ EStart /\ PStart /\ AStart /\ FStart /\ UStart /\ MStart /\ KStart /\ HStart /\ TStart /\ GStart
SpecDead == DInit /\ [][DNext]_vars

EInit ==
    /\ ex_pc = "executing"
    /\ ex_setting \in 1..MaxAttemptsSetting
    /\ ex_attempt = 0
    /\ ex_failover = NewChain(ChainCandidates)
    /\ ex_route = ChainCandidates[1]
    /\ ex_response = None
    /\ ex_hit_limit = FALSE
    /\ ex_outcomes = <<>>
    /\ QIdle /\ RStart /\ SStart /\ LStart /\ DStart /\ PStart /\ AStart /\ FStart /\ UStart /\ MStart /\ KStart /\ HStart /\ TStart /\ GStart
SpecRetries == EInit /\ [][ENext]_vars

PInit ==
    /\ bp_result \in RawPlans
    /\ bp_plan = <<>>
    /\ bp_pc = "planning"
    /\ QIdle /\ RStart /\ SStart /\ LStart /\ DStart /\ EStart /\ AStart /\ FStart /\ UStart /\ MStart /\ KStart /\ HStart /\ TStart /\ GStart
SpecPlanning == PInit /\ [][PNext]_vars

AInit ==
    /\ ap_pc = "deciding"
    /\ ap_request \in Requests
    /\ ap_planner \in PlannerResults
    /\ ap_metadata = NoMetadata
    /\ pending_actions = <<>>
    /\ tasks = <<>>
    /\ ap_calls = 0
    /\ ap_last = None
    /\ QIdle /\ RStart /\ SStart /\ LStart /\ DStart /\ EStart /\ PStart /\ FStart /\ UStart /\ MStart /\ KStart /\ HStart /\ TStart /\ GStart
SpecApproval == AInit /\ [][ANext]_vars

FInit ==
    /\ fo_chain \in {NewChain(chain) : chain \in Chains}
    /\ fo_last = [call |-> "init", raised |-> None, value |-> None]
    /\ QIdle /\ RStart /\ SStart /\ LStart /\ DStart /\ EStart /\ PStart /\ AStart /\ UStart /\ MStart /\ KStart /\ HStart /\ TStart /\ GStart
SpecFailover == FInit /\ [][FNext]_vars

UInit == UStart /\ QIdle /\ RStart /\ SStart /\ LStart /\ DStart /\ EStart /\ PStart /\ AStart /\ FStart /\ MStart /\ KStart /\ HStart /\ TStart /\ GStart
SpecRunLife == UInit /\ [][UNext]_vars

MInit == MStart /\ QIdle /\ RStart /\ SStart /\ LStart /\ DStart /\ EStart /\ PStart /\ AStart /\ FStart /\ UStart /\ KStart /\ HStart /\ TStart /\ GStart
SpecSession == MInit /\ [][MNext]_vars

KInit == KStart /\ QIdle /\ RStart /\ SStart /\ LStart /\ DStart /\ EStart /\ PStart /\ AStart /\ FStart /\ UStart /\ MStart /\ HStart /\ TStart /\ GStart
SpecRelationship == KInit /\ [][KNext]_vars

HInit == HStart /\ QIdle /\ RStart /\ SStart /\ LStart /\ DStart /\ EStart /\ PStart /\ AStart /\ FStart /\ UStart /\ MStart /\ KStart /\ TStart /\ GStart
SpecChat == HInit /\ [][HNext]_vars

\* the process starts at midnight or two hours before it
TInit == st_now \in {0, HoursPerDay - 2} /\ TIdle /\ QIdle /\ RStart /\ SStart /\ LStart /\ DStart /\ EStart /\ PStart /\ AStart /\ FStart /\ UStart /\ MStart /\ KStart /\ HStart /\ GStart
SpecShortTerm == TInit /\ [][TNext]_vars

GInit == GStart /\ QIdle /\ RStart /\ SStart /\ LStart /\ DStart /\ EStart /\ PStart /\ AStart /\ FStart /\ UStart /\ MStart /\ KStart /\ HStart /\ TStart
SpecTasks == GInit /\ [][GNext]_vars

====
